---- MODULE Spec2Model ----
(***************************************************************************)
(* A model of the XiaoyaWebDavProxy WebDAV simulators.                     *)
(*                                                                         *)
(* The repository holds several variants of one design:                    *)
(*   - the mutable VirtualFileSystem (src/unnamed/part_003), a map from    *)
(*     path to *VirtualFile behind the package variable vfs, with          *)
(*     VirtualFileHandle cursors;                                          *)
(*   - the read-only TextWebDAVFileSystem (src/main.go lines 1-391 and     *)
(*     lines 392-859), a map from path to *FileMeta behind a RWMutex.      *)
(*                                                                         *)
(* Strings are TLA+ strings; a character is a string of length 1.          *)
(***************************************************************************)
EXTENDS Integers, Sequences, FiniteSets, TLC

(***************************************************************************)
(* Go strings, strconv and path/filepath, as the code uses them.           *)
(***************************************************************************)

Char(s, i) == SubSeq(s, i, i)


Min(a, b) == IF a <= b THEN a ELSE b

\* strings.HasPrefix
HasPrefix(s, p) == Len(p) <= Len(s) /\ SubSeq(s, 1, Len(p)) = p

\* strings.HasSuffix
HasSuffix(s, p) == Len(p) <= Len(s) /\ SubSeq(s, Len(s) - Len(p) + 1, Len(s)) = p

\* strings.TrimPrefix
TrimPrefix(s, p) == IF HasPrefix(s, p) THEN SubSeq(s, Len(p) + 1, Len(s)) ELSE s

\* strings.TrimSuffix
TrimSuffix(s, p) == IF HasSuffix(s, p) THEN SubSeq(s, 1, Len(s) - Len(p)) ELSE s

\* strings.Index for a one-character separator; 0 when absent
IndexOf(s, c) ==
    IF \E i \in 1..Len(s) : Char(s, i) = c
    THEN CHOOSE i \in 1..Len(s) :
             Char(s, i) = c /\ \A j \in 1..(i - 1) : Char(s, j) # c
    ELSE 0

\* strings.LastIndex for a one-character separator; 0 when absent
LastIndexOf(s, c) ==
    IF \E i \in 1..Len(s) : Char(s, i) = c
    THEN CHOOSE i \in 1..Len(s) :
             Char(s, i) = c /\ \A j \in (i + 1)..Len(s) : Char(s, j) # c
    ELSE 0

IsSpace(c) == c \in {" ", "\t", "\r", "\n"}

RECURSIVE TrimLeft(_)
TrimLeft(s) ==
    IF s # "" /\ IsSpace(Char(s, 1)) THEN TrimLeft(Tail(s)) ELSE s

RECURSIVE TrimRight(_)
TrimRight(s) ==
    IF s # "" /\ IsSpace(Char(s, Len(s)))
    THEN TrimRight(SubSeq(s, 1, Len(s) - 1))
    ELSE s

\* strings.TrimSpace
TrimSpace(s) == TrimRight(TrimLeft(s))

\* strings.Split with a one-character separator: Split("", sep) is <<"">>
RECURSIVE Split(_, _)
Split(s, sep) ==
    LET i == IndexOf(s, sep)
    IN  IF i = 0
        THEN <<s>>
        ELSE <<SubSeq(s, 1, i - 1)>> \o Split(SubSeq(s, i + 1, Len(s)), sep)

\* strings.Join
RECURSIVE JoinSegs(_, _)
JoinSegs(segs, sep) ==
    IF segs = <<>> THEN ""
    ELSE IF Len(segs) = 1 THEN segs[1]
    ELSE segs[1] \o sep \o JoinSegs(Tail(segs), sep)

\* The element stack of filepath.Clean: "" and "." elements are dropped, ".."
\* removes the element before it (at the root it is dropped; in a relative
\* path with nothing before it, it is kept).
RECURSIVE CleanFold(_, _, _)
CleanFold(segs, stack, rooted) ==
    IF segs = <<>> THEN stack
    ELSE LET e == segs[1]
             rest == Tail(segs)
         IN  IF e = "" \/ e = "."
             THEN CleanFold(rest, stack, rooted)
             ELSE IF e = ".."
             THEN IF stack # <<>> /\ stack[Len(stack)] # ".."
                  THEN CleanFold(rest, SubSeq(stack, 1, Len(stack) - 1), rooted)
                  ELSE IF rooted
                  THEN CleanFold(rest, stack, rooted)
                  ELSE CleanFold(rest, Append(stack, e), rooted)
             ELSE CleanFold(rest, Append(stack, e), rooted)

\* filepath.Clean (Unix)
Clean(p) ==
    LET rooted == HasPrefix(p, "/")
        body == JoinSegs(CleanFold(Split(p, "/"), <<>>, rooted), "/")
        out == IF rooted THEN "/" \o body ELSE body
    IN  IF out = "" THEN "." ELSE out

\* filepath.Dir (Unix): Clean of everything up to the last separator
Dir(p) == Clean(SubSeq(p, 1, LastIndexOf(p, "/")))

RECURSIVE StripSlashes(_)
StripSlashes(p) ==
    IF p # "" /\ Char(p, Len(p)) = "/"
    THEN StripSlashes(SubSeq(p, 1, Len(p) - 1))
    ELSE p

\* filepath.Base (Unix)
Base(p) ==
    IF p = "" THEN "."
    ELSE LET q == StripSlashes(p)
         IN  IF q = "" THEN "/"
             ELSE SubSeq(q, LastIndexOf(q, "/") + 1, Len(q))

\* filepath.Join of two elements: empty elements are ignored, the rest is
\* joined by "/" and cleaned; "" when both are empty.
Join(a, b) ==
    LET elems == SelectSeq(<<a, b>>, LAMBDA e : e # "")
    IN  IF elems = <<>> THEN "" ELSE Clean(JoinSegs(elems, "/"))

DigitVal(c) ==
    CASE c = "0" -> 0 [] c = "1" -> 1 [] c = "2" -> 2 [] c = "3" -> 3
      [] c = "4" -> 4 [] c = "5" -> 5 [] c = "6" -> 6 [] c = "7" -> 7
      [] c = "8" -> 8 [] c = "9" -> 9

IsDigit(c) == c \in {"0", "1", "2", "3", "4", "5", "6", "7", "8", "9"}

RECURSIVE DecVal(_, _)
DecVal(s, acc) ==
    IF s = "" THEN acc ELSE DecVal(Tail(s), 10 * acc + DigitVal(Char(s, 1)))

\* strconv.ParseInt(s, 10, 64): an optional sign, then one or more digits.
\* (The inputs of the model stay far inside int64, so the range error of
\* ParseInt never arises.)
ParseInt(s) ==
    LET signed == s # "" /\ Char(s, 1) \in {"+", "-"}
        digits == IF signed THEN Tail(s) ELSE s
    IN  IF digits = "" \/ \E i \in 1..Len(digits) : ~IsDigit(Char(digits, i))
        THEN [err |-> TRUE, val |-> 0]
        ELSE [err |-> FALSE,
              val |-> IF Char(s, 1) = "-" THEN 0 - DecVal(digits, 0)
                      ELSE DecVal(digits, 0)]

(***************************************************************************)
(* The mutable VirtualFileSystem of src/unnamed/part_003.                  *)
(*                                                                         *)
(* files maps a path to a *VirtualFile; the pointer is an object id and    *)
(* objs is the heap, so that a handle keeps its object when the map drops  *)
(* or moves the key.  An object no key and no handle refers to is garbage  *)
(* and leaves the heap, as Go's collector would have it.                   *)
(***************************************************************************)

VARIABLES
    phase,      \* "new" before main's LoadFromText, "serving" after it, "halted" when it failed
    files,      \* vfs.files: path -> object id
    objs,       \* the heap: object id -> VirtualFile
    handles,    \* the VirtualFileHandles callers hold: sequence of [file, offset, closed]
    now,        \* the reading of time.Now()
    last,       \* the last call: [op, err, h], h the handle it was made on (0: none)
    steps,      \* the requests served so far
    Files,      \* TextWebDAVFileSystem.Files of src/main.go: path -> FileMeta
    vfiles,     \* the VirtualFiles of src/main.go callers hold: sequence of [meta, pos, flags]
    rn          \* the Rename in progress when requests run concurrently

vars == <<phase, files, objs, handles, now, last, steps, Files, vfiles, rn>>

\* ---- bounds of the model ----
\* the requests served after the load: by the VirtualFileSystem, by the
\* TextWebDAVFileSystem, by the concurrent VirtualFileSystem
MaxSteps == 2
MaxTextSteps == 3
MaxConcSteps == 3
\* the handles callers hold at a time
MaxHandles == 1
\* the largest small offset of a Seek
MaxOffset == 2
\* the largest buffer of a Read or a Write
MaxLen == 2

\* io.SeekStart, io.SeekCurrent, io.SeekEnd
SeekStart == 0
SeekCurrent == 1
SeekEnd == 2

\* xml.Name{Space: "DAV:", Local: "displayname"}
DavDisplayName == <<"DAV:", "displayname">>

\* &VirtualFile{...} followed by the displayname property the code sets on it
MkFile(name, displayName, size, t, isDir) ==
    [name |-> name, displayName |-> displayName, size |-> size, modTime |-> t,
     isDir |-> isDir,
     properties |-> [k \in {DavDisplayName} |-> displayName]]

\* a fresh pointer
NewId(os) == CHOOSE i \in 1..(Cardinality(DOMAIN os) + 1) :
                 i \notin DOMAIN os /\ \A j \in 1..(i - 1) : j \in DOMAIN os

\* vfs.files[path] = &VirtualFile{...}
Put(st, path, f) ==
    LET id == NewId(st.objs)
    IN  [st EXCEPT !.files = [q \in DOMAIN st.files \cup {path} |->
                                 IF q = path THEN id ELSE st.files[q]],
                   !.objs = [i \in DOMAIN st.objs \cup {id} |->
                                 IF i = id THEN f ELSE st.objs[i]]]

RECURSIVE SetToSeq(_)
SetToSeq(S) ==
    IF S = {} THEN <<>>
    ELSE LET x == CHOOSE y \in S : TRUE IN <<x>> \o SetToSeq(S \ {x})

\* The heap as the program can observe it: the collector drops the objects no
\* key and no handle refers to, and, a pointer's value being invisible to the
\* program, the objects are renumbered in one fixed order (those the map
\* holds first, then those only handles hold).  Each object is under at most
\* one key: no operation stores one pointer twice.
Collect(fs, os, hs) ==
    LET keys == SetToSeq(DOMAIN fs)
        keyed == [k \in DOMAIN keys |-> fs[keys[k]]]
        first == {i \in DOMAIN hs :
                     /\ \A p \in DOMAIN fs : fs[p] # hs[i].file
                     /\ \A j \in 1..(i - 1) : hs[j].file # hs[i].file}
        held == [k \in 1..Cardinality(first) |->
                    hs[CHOOSE i \in first :
                           Cardinality({j \in first : j < i}) = k - 1].file]
        order == keyed \o held
        newId(id) == CHOOSE k \in DOMAIN order : order[k] = id
    IN  [files |-> [p \in DOMAIN fs |-> newId(fs[p])],
         objs |-> [k \in DOMAIN order |-> os[order[k]]],
         handles |-> [i \in DOMAIN hs |-> [hs[i] EXCEPT !.file = newId(hs[i].file)]]]

\* LoadFromText, lines 72-96: every ancestor directory of the declared path
RECURSIVE MkAncestors(_, _, _, _)
MkAncestors(st, parts, current, t) ==
    IF parts = <<>> THEN st
    ELSE LET cur == Join(current, parts[1])
             dirPath == "/" \o cur
             st1 == IF dirPath \in DOMAIN st.files
                    THEN st
                    ELSE Put(st, dirPath, MkFile(Base(dirPath), Base(dirPath), 0, t, TRUE))
         IN  MkAncestors(st1, Tail(parts), cur, t)

\* A seeded fault: a loop body that creates the ancestor directories before
\* it parses the size
LoadLine_AncestorsFirst(st, raw, t) ==
    LET line == TrimSpace(raw)
    IN  IF line = "" \/ HasPrefix(line, "#") THEN st
        ELSE LET parts == Split(line, "#")
             IN  IF Len(parts) < 2 THEN [st EXCEPT !.err = "invalid line format"]
                 ELSE LET path == TrimSpace(parts[1])
                          sizeStr == TrimSpace(parts[2])
                          given == IF Len(parts) >= 3 THEN TrimSpace(parts[3]) ELSE ""
                          size == ParseInt(sizeStr)
                          dir == Dir(path)
                          st1 == IF dir # "." /\ dir # "/"
                                 THEN MkAncestors(st, Split(TrimPrefix(dir, "/"), "/"), "", t)
                                 ELSE st
                          displayName == IF given = "" THEN Base(path) ELSE given
                      IN  IF size.err THEN [st1 EXCEPT !.err = "invalid size"]
                          ELSE Put(st1, path, MkFile(Base(path), displayName, size.val, t, FALSE))

\* LoadFromText, the body of the loop over the lines (lines 46-116)
LoadLine(st, raw, t) ==
    LET line == TrimSpace(raw)
    IN  IF line = "" \/ HasPrefix(line, "#") THEN st
        ELSE LET parts == Split(line, "#")
             IN  IF Len(parts) < 2 THEN [st EXCEPT !.err = "invalid line format"]
                 ELSE LET path == TrimSpace(parts[1])
                          sizeStr == TrimSpace(parts[2])
                          given == IF Len(parts) >= 3 THEN TrimSpace(parts[3]) ELSE ""
                          size == ParseInt(sizeStr)
                          dir == Dir(path)
                          st1 == IF dir # "." /\ dir # "/"
                                 THEN MkAncestors(st, Split(TrimPrefix(dir, "/"), "/"), "", t)
                                 ELSE st
                          displayName == IF given = "" THEN Base(path) ELSE given
                      IN  IF size.err THEN [st EXCEPT !.err = "invalid size"]
                          ELSE Put(st1, path, MkFile(Base(path), displayName, size.val, t, FALSE))

RECURSIVE LoadLines(_, _, _)
LoadLines(st, lines, t) ==
    IF lines = <<>> \/ st.err # "nil" THEN st
    ELSE LoadLines(LoadLine(st, lines[1], t), Tail(lines), t)

\* VirtualFileSystem.LoadFromText
LoadFromText(fs, os, text, t) ==
    LET st == LoadLines([files |-> fs, objs |-> os, err |-> "nil"], Split(text, "\n"), t)
    IN  IF st.err # "nil" THEN st
        ELSE IF "/" \in DOMAIN st.files THEN st
        ELSE Put(st, "/", MkFile("", "Root", 0, t, TRUE))

\* A seeded fault: a Mkdir that replaces the entry already at name
MkdirOp_Overwrites(fs, os, name, t) ==
    [Put([files |-> fs, objs |-> os, err |-> "nil"], name,
         MkFile(Base(name), Base(name), 0, t, TRUE)) EXCEPT !.err = "nil"]

\* VirtualFileSystem.Mkdir
MkdirOp(fs, os, name, t) ==
    IF name \in DOMAIN fs
    THEN [files |-> fs, objs |-> os, err |-> "ErrExist"]
    ELSE [Put([files |-> fs, objs |-> os, err |-> "nil"], name,
              MkFile(Base(name), Base(name), 0, t, TRUE)) EXCEPT !.err = "nil"]

\* &VirtualFileHandle{file: f}
MkHandle(id) == [file |-> id, offset |-> 0, closed |-> FALSE]

\* A seeded fault: an OpenFile that ignores O_EXCL
OpenFileOp_NoExcl(fs, os, name, create, excl, t) ==
    IF name \notin DOMAIN fs
    THEN IF create
         THEN LET st == Put([files |-> fs, objs |-> os, err |-> "nil"], name,
                            MkFile(Base(name), Base(name), 0, t, FALSE))
              IN  [files |-> st.files, objs |-> st.objs, err |-> "nil",
                   h |-> <<MkHandle(st.files[name])>>]
         ELSE [files |-> fs, objs |-> os, err |-> "ErrNotExist", h |-> <<>>]
    ELSE [files |-> fs, objs |-> os, err |-> "nil", h |-> <<MkHandle(fs[name])>>]

\* A seeded fault: an OpenFile that hands out a copy of the entry it found
OpenFileOp_Copies(fs, os, name, create, excl, t) ==
    IF name \notin DOMAIN fs
    THEN IF create
         THEN LET st == Put([files |-> fs, objs |-> os, err |-> "nil"], name,
                            MkFile(Base(name), Base(name), 0, t, FALSE))
              IN  [files |-> st.files, objs |-> st.objs, err |-> "nil",
                   h |-> <<MkHandle(st.files[name])>>]
         ELSE [files |-> fs, objs |-> os, err |-> "ErrNotExist", h |-> <<>>]
    ELSE IF excl /\ create
         THEN [files |-> fs, objs |-> os, err |-> "ErrExist", h |-> <<>>]
         ELSE LET id == NewId(os)
              IN  [files |-> fs,
                   objs |-> [i \in DOMAIN os \cup {id} |->
                                IF i = id THEN os[fs[name]] ELSE os[i]],
                   err |-> "nil", h |-> <<MkHandle(id)>>]

\* VirtualFileSystem.OpenFile; create and excl are flag&os.O_CREATE != 0 and
\* flag&os.O_EXCL != 0.  h is the handle returned, <<>> when the call fails.
OpenFileOp(fs, os, name, create, excl, t) ==
    IF name \notin DOMAIN fs
    THEN IF create
         THEN LET st == Put([files |-> fs, objs |-> os, err |-> "nil"], name,
                            MkFile(Base(name), Base(name), 0, t, FALSE))
              IN  [files |-> st.files, objs |-> st.objs, err |-> "nil",
                   h |-> <<MkHandle(st.files[name])>>]
         ELSE [files |-> fs, objs |-> os, err |-> "ErrNotExist", h |-> <<>>]
    ELSE IF excl /\ create
         THEN [files |-> fs, objs |-> os, err |-> "ErrExist", h |-> <<>>]
         ELSE [files |-> fs, objs |-> os, err |-> "nil", h |-> <<MkHandle(fs[name])>>]

\* path == name || strings.HasPrefix(path, name+"/")
InSubtree(path, name) == path = name \/ HasPrefix(path, name \o "/")

\* VirtualFileSystem.RemoveAll
RemoveAllOp(fs, os, name) ==
    LET toDelete == {path \in DOMAIN fs : InSubtree(path, name)}
    IN  IF toDelete = {}
        THEN [files |-> fs, objs |-> os, err |-> "ErrNotExist"]
        ELSE [files |-> [q \in DOMAIN fs \ toDelete |-> fs[q]], objs |-> os, err |-> "nil"]

\* A seeded fault: a Rename of a directory whose delete loop is missing
RenameOp_NoDelete(fs, os, oldName, newName) ==
    IF oldName \notin DOMAIN fs
    THEN [files |-> fs, objs |-> os, err |-> "ErrNotExist"]
    ELSE LET moved == {path \in DOMAIN fs : InSubtree(path, oldName)}
             newPath(path) == newName \o TrimPrefix(path, oldName)
             children == {newPath(path) : path \in moved}
             from(q) == CHOOSE path \in moved : newPath(path) = q
         IN  [files |-> [q \in DOMAIN fs \cup children |->
                            IF q \in children THEN fs[from(q)] ELSE fs[q]],
              objs |-> os, err |-> "nil"]

\* VirtualFileSystem.Rename
RenameOp(fs, os, oldName, newName) ==
    IF oldName \notin DOMAIN fs
    THEN [files |-> fs, objs |-> os, err |-> "ErrNotExist"]
    ELSE IF os[fs[oldName]].isDir
    THEN LET moved == {path \in DOMAIN fs : InSubtree(path, oldName)}
             newPath(path) == newName \o TrimPrefix(path, oldName)
             children == {newPath(path) : path \in moved}
             from(q) == CHOOSE path \in moved : newPath(path) = q
         IN  [files |-> [q \in (DOMAIN fs \ moved) \cup children |->
                            IF q \in children THEN fs[from(q)] ELSE fs[q]],
              objs |-> os, err |-> "nil"]
    ELSE [files |-> [q \in (DOMAIN fs \ {oldName}) \cup {newName} |->
                        IF q = newName THEN fs[oldName] ELSE fs[q]],
          objs |-> os, err |-> "nil"]

\* What a caller reads off the os.FileInfo a *VirtualFile is (Name, Size, IsDir, ModTime)
Info(f) == [name |-> f.name, size |-> f.size, isDir |-> f.isDir, modTime |-> f.modTime]

\* VirtualFileSystem.Stat: info is <<>> with ErrNotExist
StatOp(fs, os, name) ==
    IF name \notin DOMAIN fs
    THEN [err |-> "ErrNotExist", info |-> <<>>]
    ELSE [err |-> "nil", info |-> <<Info(os[fs[name]])>>]

\* VirtualFileHandle.Close
CloseOp(h) ==
    IF h.closed THEN [h |-> h, err |-> "ErrClosed"]
    ELSE [h |-> [h EXCEPT !.closed = TRUE], err |-> "nil"]

\* VirtualFileHandle.Read into a buffer of len bytes; f is *vf.file
ReadOp(h, f, len) ==
    IF h.closed THEN [h |-> h, n |-> 0, err |-> "ErrClosed"]
    ELSE IF f.isDir THEN [h |-> h, n |-> 0, err |-> "ErrInvalid"]
    ELSE IF h.offset >= f.size THEN [h |-> h, n |-> 0, err |-> "EOF"]
    ELSE LET n == Min(len, f.size - h.offset)
         IN  [h |-> [h EXCEPT !.offset = h.offset + n], n |-> n, err |-> "nil"]

\* VirtualFileHandle.Seek: the offset is assigned first and checked afterwards
SeekOp(h, f, offset, whence) ==
    IF h.closed THEN [h |-> h, ret |-> 0, err |-> "ErrClosed"]
    ELSE IF whence \notin {SeekStart, SeekCurrent, SeekEnd}
    THEN [h |-> h, ret |-> 0, err |-> "seek: invalid whence"]
    ELSE LET pos == CASE whence = SeekStart -> offset
                      [] whence = SeekCurrent -> h.offset + offset
                      [] whence = SeekEnd -> f.size + offset
             h1 == [h EXCEPT !.offset = pos]
         IN  IF pos < 0
             THEN [h |-> h1, ret |-> 0, err |-> "seek: negative position"]
             ELSE [h |-> h1, ret |-> pos, err |-> "nil"]

\* The condition of VirtualFileHandle.Readdir's loop: it compares the key's
\* directory with the NAME of the handle's file (its base name), not its path
ReaddirMatch(path, name) ==
    LET dir == Dir(path)
    IN  \/ dir = TrimSuffix(name, "/")
        \/ (dir = "." /\ name = "")
        \/ (dir = "/" /\ name = "")

\* VirtualFileHandle.Readdir: the keys of the entries it may return.  The map
\* is ranged over in an unspecified order, so with count > 0 the call returns
\* any count of the matching entries; infos is the set of possible results.
ReaddirOp(h, f, fs, count) ==
    IF h.closed THEN [infos |-> {}, err |-> "ErrClosed"]
    ELSE IF ~f.isDir THEN [infos |-> {}, err |-> "ErrInvalid"]
    ELSE LET all == {path \in DOMAIN fs : ReaddirMatch(path, f.name)}
         IN  [infos |-> IF count > 0 /\ Cardinality(all) > count
                        THEN {ks \in SUBSET all : Cardinality(ks) = count}
                        ELSE {all},
              err |-> "nil"]

\* VirtualFileHandle.Stat
HandleStatOp(h, f) ==
    IF h.closed THEN [err |-> "ErrClosed", info |-> <<>>]
    ELSE [err |-> "nil", info |-> <<Info(f)>>]

\* A seeded fault: a Write without the test of isDir
WriteOp_NoDirCheck(h, f, len, t) ==
    IF h.closed THEN [f |-> f, n |-> 0, err |-> "ErrClosed"]
    ELSE [f |-> [f EXCEPT !.size = h.offset + len, !.modTime = t],
          n |-> len, err |-> "nil"]

\* VirtualFileHandle.Write of len bytes: f is the file after the call
WriteOp(h, f, len, t) ==
    IF h.closed THEN [f |-> f, n |-> 0, err |-> "ErrClosed"]
    ELSE IF f.isDir THEN [f |-> f, n |-> 0, err |-> "ErrInvalid"]
    ELSE [f |-> [f EXCEPT !.size = h.offset + len, !.modTime = t],
          n |-> len, err |-> "nil"]

\* http.StatusOK
StatusOK == 200

\* a webdav.Property: its XMLName (<<Space, Local>>) and its InnerXML
Prop(xmlName, innerXML) == [XMLName |-> xmlName, InnerXML |-> innerXML]

\* the Props of all the patches, in order
RECURSIVE AllProps(_)
AllProps(patches) ==
    IF patches = <<>> THEN <<>> ELSE patches[1].Props \o AllProps(Tail(patches))

\* VirtualFile.Patch, the body of the inner loop: the property is stored under
\* its name, and displayName follows every property whose local name is
\* "displayname"
PatchProp(f, prop) ==
    LET f1 == [f EXCEPT !.properties =
                  [k \in DOMAIN f.properties \cup {prop.XMLName} |->
                      IF k = prop.XMLName THEN prop.InnerXML ELSE f.properties[k]]]
    IN  IF prop.XMLName[2] = "displayname"
        THEN [f1 EXCEPT !.displayName = prop.InnerXML]
        ELSE f1

RECURSIVE PatchProps(_, _)
PatchProps(f, props) ==
    IF props = <<>> THEN f ELSE PatchProps(PatchProp(f, props[1]), Tail(props))

\* A seeded fault: a Patch that sets the displayName field and no property
PatchOp_FieldOnly(f, patches) ==
    LET props == AllProps(patches)
        named == {i \in DOMAIN props : props[i].XMLName[2] = "displayname"}
    IN  [f |-> IF named = {} THEN f
               ELSE [f EXCEPT !.displayName =
                        props[CHOOSE i \in named : \A j \in named : j <= i].InnerXML],
         propstats |-> <<[Status |-> StatusOK, Props |-> <<>>]>>, err |-> "nil"]

\* VirtualFile.Patch: f is the file after the call; the result is one
\* Propstat with no property in it
PatchOp(f, patches) ==
    [f |-> PatchProps(f, AllProps(patches)),
     propstats |-> <<[Status |-> StatusOK, Props |-> <<>>]>>, err |-> "nil"]

\* VirtualFile.DeadProps: the properties map itself
DeadPropsOp(f) == [props |-> f.properties, err |-> "nil"]

\* VirtualFile.DeadProps of src/unnamed/part_001 (lines 819-839): a new map with
\* DAV: displayname taken from the displayName field, and the stored
\* properties of every other local name
DeadProps001Op(f) ==
    LET others == {k \in DOMAIN f.properties : k[2] # "displayname"}
    IN  [props |-> [k \in others \cup {DavDisplayName} |->
                       IF k = DavDisplayName THEN f.displayName ELSE f.properties[k]],
         err |-> "nil"]

(***************************************************************************)
(* The VirtualFileSystem of src/unnamed/part_001 (lines 303-677): the same *)
(* store without properties.  Its Rename is the Rename above.              *)
(***************************************************************************)

\* the VirtualFile of part_001: no properties
NoProps(f) ==
    [name |-> f.name, displayName |-> f.displayName, size |-> f.size,
     modTime |-> f.modTime, isDir |-> f.isDir]

MkFile001(name, displayName, size, t, isDir) ==
    NoProps(MkFile(name, displayName, size, t, isDir))

\* a store whose files are the VirtualFile of part_001
Plain(st) ==
    [files |-> st.files, objs |-> [i \in DOMAIN st.objs |-> NoProps(st.objs[i])],
     err |-> st.err]

\* VirtualFileSystem.LoadFromText of part_001: the lines are read as above,
\* the root it adds has an empty displayName (st ranges over the one store
\* the loop over the lines ends with)
LoadFromText001(fs, os, text, t) ==
    CHOOSE r \in
        { IF st.err # "nil" \/ "/" \in DOMAIN st.files THEN Plain(st)
          ELSE Put(Plain(st), "/", MkFile001("", "", 0, t, TRUE)) :
            st \in {LoadLines([files |-> fs, objs |-> os, err |-> "nil"],
                              Split(text, "\n"), t)} } : TRUE

\* VirtualFileSystem.Mkdir of part_001
Mkdir001Op(fs, os, name, t) ==
    IF name \in DOMAIN fs
    THEN [files |-> fs, objs |-> os, err |-> "ErrExist"]
    ELSE [Put([files |-> fs, objs |-> os, err |-> "nil"], name,
              MkFile001(Base(name), Base(name), 0, t, TRUE)) EXCEPT !.err = "nil"]

\* VirtualFileSystem.RemoveAll of part_001: there is no test of an empty
\* selection, the result is nil
RemoveAll001Op(fs, os, name) ==
    LET toDelete == {path \in DOMAIN fs : InSubtree(path, name)}
    IN  [files |-> [q \in DOMAIN fs \ toDelete |-> fs[q]], objs |-> os, err |-> "nil"]

\* VirtualFile.Name of part_001: displayName when it is not empty
Info001(f) ==
    [name |-> IF f.displayName # "" THEN f.displayName ELSE f.name,
     size |-> f.size, isDir |-> f.isDir, modTime |-> f.modTime]

\* VirtualFileSystem.Stat of part_001
Stat001Op(fs, os, name) ==
    IF name \notin DOMAIN fs
    THEN [err |-> "ErrNotExist", info |-> <<>>]
    ELSE [err |-> "nil", info |-> <<Info001(os[fs[name]])>>]

(***************************************************************************)
(* The read-only TextWebDAVFileSystem of src/main.go (lines 1-391).        *)
(*                                                                         *)
(* Files maps a path to a *FileMeta.  After the load no key is added or    *)
(* removed, so the pointer a VirtualFile holds is the key of its FileMeta. *)
(* Content is a text about the file; only its length in bytes matters.     *)
(***************************************************************************)

\* the length of strconv's decimal form of n
RECURSIVE Digits(_)
Digits(n) == IF n < 0 THEN 1 + Digits(0 - n) ELSE IF n < 10 THEN 1 ELSE 1 + Digits(n \div 10)

\* len([]byte(fmt.Sprintf(...))) of LoadFromText: 47 bytes of UTF-8 text
\* around the path and the decimal size
ContentLen(path, size) == 47 + Len(path) + Digits(size)

\* TextWebDAVFileSystem.LoadFromText, the body of the loop over the lines
TextLoadLine(st, raw) ==
    LET line == TrimSpace(raw)
    IN  IF line = "" \/ HasPrefix(line, "#") THEN st
        ELSE LET parts == Split(line, "#")
             IN  IF Len(parts) < 3 THEN [st EXCEPT !.err = "line format"]
                 ELSE LET given == TrimSpace(parts[1])
                          size == ParseInt(TrimSpace(parts[2]))
                          displayName == TrimSpace(parts[3])
                          path == IF HasPrefix(given, "/") THEN given ELSE "/" \o given
                          meta == [Path |-> path, Size |-> size.val,
                                   DisplayName |-> displayName,
                                   Content |-> ContentLen(path, size.val)]
                      IN  IF size.err THEN [st EXCEPT !.err = "size format"]
                          ELSE IF given = "" \/ displayName = ""
                          THEN [st EXCEPT !.err = "empty path or display name"]
                          ELSE [st EXCEPT !.Files =
                                   [q \in DOMAIN st.Files \cup {path} |->
                                       IF q = path THEN meta ELSE st.Files[q]]]

RECURSIVE TextLoadLines(_, _)
TextLoadLines(st, lines) ==
    IF lines = <<>> \/ st.err # "nil" THEN st
    ELSE TextLoadLines(TextLoadLine(st, lines[1]), Tail(lines))

\* TextWebDAVFileSystem.LoadFromText
TextLoadFromText(Fs, text) ==
    TextLoadLines([Files |-> Fs, err |-> "nil"], Split(text, "\n"))

\* TextWebDAVFileSystem.OpenFile: f is the VirtualFile returned, <<>> on an error
TextOpenFileOp(Fs, name, flag) ==
    IF name \notin DOMAIN Fs
    THEN [err |-> "ErrNotExist", f |-> <<>>]
    ELSE [err |-> "nil", f |-> <<[meta |-> name, pos |-> 0, flags |-> flag]>>]

\* TextWebDAVFileSystem.Stat: a path that is no key is a directory when some
\* key starts with name + "/"
TextStatOp(Fs, name, t) ==
    IF name \in DOMAIN Fs
    THEN [err |-> "nil",
          info |-> <<[name |-> Fs[name].DisplayName, size |-> Fs[name].Size,
                      path |-> Fs[name].Path, isDir |-> FALSE, modTime |-> t]>>]
    ELSE IF \E path \in DOMAIN Fs : HasPrefix(path, name \o "/")
    THEN [err |-> "nil",
          info |-> <<[name |-> Base(name), size |-> 0,
                      path |-> name, isDir |-> TRUE, modTime |-> t]>>]
    ELSE [err |-> "ErrNotExist", info |-> <<>>]

\* A seeded fault: a Mkdir that inserts the entry before it refuses
TextMkdirOp_Inserts(Fs, name) ==
    [Files |-> [k \in DOMAIN Fs \cup {name} |->
                   IF k \in DOMAIN Fs THEN Fs[k]
                   ELSE [Path |-> name, Size |-> 0, DisplayName |-> Base(name),
                         Content |-> 0]],
     err |-> "ErrPermission"]

\* TextWebDAVFileSystem.Mkdir, RemoveAll and Rename: they log and refuse
TextMkdirOp(Fs, name) == [Files |-> Fs, err |-> "ErrPermission"]

TextRemoveAllOp(Fs, name) == [Files |-> Fs, err |-> "ErrPermission"]

TextRenameOp(Fs, oldName, newName) == [Files |-> Fs, err |-> "ErrPermission"]

\* VirtualFile.Close: it only logs
VFCloseOp(f) == [f |-> f, err |-> "nil"]

\* VirtualFile.Read into a buffer of len bytes
VFReadOp(f, Fs, len) ==
    LET content == Fs[f.meta].Content
    IN  IF f.pos >= content THEN [f |-> f, n |-> 0, err |-> "EOF"]
        ELSE LET n == Min(len, content - f.pos)
             IN  [f |-> [f EXCEPT !.pos = f.pos + n], n |-> n, err |-> "nil"]

\* VirtualFile.Write
VFWriteOp(f) == [f |-> f, n |-> 0, err |-> "ErrPermission"]

\* VirtualFile.Seek
VFSeekOp(f, Fs, offset, whence) ==
    IF whence \notin {SeekStart, SeekCurrent, SeekEnd}
    THEN [f |-> f, ret |-> 0, err |-> "invalid whence"]
    ELSE LET newPos == CASE whence = SeekStart -> offset
                         [] whence = SeekCurrent -> f.pos + offset
                         [] whence = SeekEnd -> Fs[f.meta].Content + offset
         IN  IF newPos < 0
             THEN [f |-> f, ret |-> 0, err |-> "negative position"]
             ELSE [f |-> [f EXCEPT !.pos = newPos], ret |-> newPos, err |-> "nil"]

\* VirtualFile.Readdir
VFReaddirOp(f) == [infos |-> {}, err |-> "ErrPermission"]

\* VirtualFile.Stat
VFStatOp(f, Fs, t) == TextStatOp(Fs, Fs[f.meta].Path, t)

\* http.StatusForbidden
StatusForbidden == 403

\* the properties CustomPropSystem.Find answers for; getlastmodified is the
\* time of the call
FindValue(meta, local, t) ==
    CASE local = "displayname" -> meta.DisplayName
      [] local = "getcontentlength" -> meta.Size
      [] local = "getlastmodified" -> t
      [] OTHER -> "<D:resourcetype/>"

FindLocals == {"displayname", "getcontentlength", "getlastmodified", "resourcetype"}

\* CustomPropSystem.Find: the requested DAV: properties it knows, by name
TextFindOp(Fs, name, propnames, t) ==
    IF name \notin DOMAIN Fs
    THEN [err |-> "ErrNotExist", props |-> <<>>]
    ELSE LET found == {pn \in propnames : pn[1] = "DAV:" /\ pn[2] \in FindLocals}
         IN  [err |-> "nil",
              props |-> [pn \in found |-> FindValue(Fs[name], pn[2], t)]]

\* CustomPropSystem.Patch, one patch: DAV: displayname is applied and listed,
\* every other property is refused and not listed
RECURSIVE TextPatchProps(_, _, _)
TextPatchProps(meta, stat, props) ==
    IF props = <<>> THEN [meta |-> meta, stat |-> stat]
    ELSE IF props[1].XMLName = DavDisplayName
    THEN TextPatchProps([meta EXCEPT !.DisplayName = props[1].InnerXML],
                        [stat EXCEPT !.Props = Append(@, props[1])], Tail(props))
    ELSE TextPatchProps(meta, [stat EXCEPT !.Status = StatusForbidden], Tail(props))

RECURSIVE TextPatches(_, _, _)
TextPatches(meta, propstats, patches) ==
    IF patches = <<>> THEN [meta |-> meta, propstats |-> propstats]
    ELSE LET r == TextPatchProps(meta, [Status |-> 0, Props |-> <<>>], patches[1].Props)
             stat == IF Len(r.stat.Props) > 0
                     THEN [r.stat EXCEPT !.Status = StatusOK] ELSE r.stat
         IN  TextPatches(r.meta, Append(propstats, stat), Tail(patches))

\* CustomPropSystem.Patch: one Propstat for each patch
TextPatchOp(Fs, name, patches) ==
    IF name \notin DOMAIN Fs
    THEN [err |-> "ErrNotExist", Files |-> Fs, propstats |-> <<>>]
    ELSE LET r == TextPatches(Fs[name], <<>>, patches)
         IN  [err |-> "nil", Files |-> [Fs EXCEPT ![name] = r.meta],
              propstats |-> r.propstats]

\* fs.Auth as main fills it: one user (the names stand for the literals of
\* the source)
Auth == [username \in {"user1"} |-> "pass1"]

\* m[key] of a Go map of strings: the empty string when key is absent
MapGet(m, key) == IF key \in DOMAIN m THEN m[key] ELSE ""

\* authMiddleware: "next" when the request is handed to the WebDAV handler,
\* "401" when it is answered with http.StatusUnauthorized.  ok is the third
\* result of r.BasicAuth().
authMiddlewareOp(auth, username, password, ok) ==
    IF ~ok THEN "401"
    ELSE IF MapGet(auth, username) # password THEN "401"
    ELSE "next"

(***************************************************************************)
(* The loader of the TextWebDAVFileSystem of src/main.go (lines 392-859),  *)
(* whose FileMeta has IsDir and ModTime; src/unnamed/part_000 (95-145) is  *)
(* the same loader without ModTime.                                        *)
(***************************************************************************)

\* len of fmt.Sprintf of line 514: 20 bytes of text, then the path
ContentLen2(path) == 20 + Len(path)

\* LoadFromText, the body of the loop over the lines: the leaf, then its
\* parent directory when that is not the root and not yet a key
TextLoadLine2(st, raw, t) ==
    LET line == TrimSpace(raw)
    IN  IF line = "" \/ HasPrefix(line, "#") THEN st
        ELSE LET parts == Split(line, "#")
             IN  IF Len(parts) < 3 THEN [st EXCEPT !.err = "line format"]
                 ELSE LET given == TrimSpace(parts[1])
                          size == ParseInt(TrimSpace(parts[2]))
                          displayName == TrimSpace(parts[3])
                          path == IF HasPrefix(given, "/") THEN given ELSE "/" \o given
                          meta == [Path |-> path, Size |-> size.val,
                                   DisplayName |-> displayName,
                                   Content |-> ContentLen2(path),
                                   IsDir |-> FALSE, ModTime |-> t]
                          dir == Dir(path)
                          dirMeta == [Path |-> dir, Size |-> 0,
                                      DisplayName |-> Base(dir), Content |-> 0,
                                      IsDir |-> TRUE, ModTime |-> t]
                          withLeaf == [q \in DOMAIN st.Files \cup {path} |->
                                          IF q = path THEN meta ELSE st.Files[q]]
                      IN  IF size.err THEN [st EXCEPT !.err = "size format"]
                          ELSE IF given = "" \/ displayName = ""
                          THEN [st EXCEPT !.err = "empty path or display name"]
                          ELSE IF dir # "/" /\ dir \notin DOMAIN withLeaf
                          THEN [st EXCEPT !.Files =
                                   [q \in DOMAIN withLeaf \cup {dir} |->
                                       IF q = dir THEN dirMeta ELSE withLeaf[q]]]
                          ELSE [st EXCEPT !.Files = withLeaf]

RECURSIVE TextLoadLines2(_, _, _)
TextLoadLines2(st, lines, t) ==
    IF lines = <<>> \/ st.err # "nil" THEN st
    ELSE TextLoadLines2(TextLoadLine2(st, lines[1], t), Tail(lines), t)

\* TextWebDAVFileSystem.LoadFromText of main.go lines 485-543
TextLoadFromText2(Fs, text, t) ==
    TextLoadLines2([Files |-> Fs, err |-> "nil"], Split(text, "\n"), t)

(***************************************************************************)
(* The inputs of the model.                                                *)
(***************************************************************************)

\* the file lists main may be built with: one declaration, a directory with
\* two children, a root-relative path
LoadTexts ==
    { "/a/x#1#N",
      "/a/x#1#N\n/a/y#2",
      "a/x#1" }

\* the paths of the requests
Paths == {"/", "/a", "/b", "/a/x", "/b/x"}

\* how far past the end of the file the far seek goes
Beyond == 100

\* the offsets a caller seeks to: small ones, the end of the file, far past it
SeekOffsets(f) == (-1..MaxOffset) \cup {f.size, f.size + Beyond}

\* the whence values of a Seek; the last is none of io.SeekStart/Current/End
Whences == {SeekStart, SeekCurrent, SeekEnd, SeekEnd + 1}

(***************************************************************************)
(* The program: main loads the file list, then serves requests.            *)
(***************************************************************************)

Init ==
    /\ phase = "new"
    /\ files = <<>>
    /\ objs = <<>>
    /\ handles = <<>>
    /\ now = 0
    /\ last = [op |-> "none", h |-> 0, err |-> "nil"]
    /\ steps = 0
    /\ Files = <<>>
    /\ vfiles = <<>>
    /\ rn = [pc |-> "idle"]

\* one more request is served, of at most max
Served(max) ==
    /\ phase = "serving"
    /\ steps < max
    /\ steps' = steps + 1
    /\ UNCHANGED <<phase, now>>

Serving == Served(MaxSteps)

\* the heap after a call, as Collect leaves it
Store(fs, os, hs) ==
    LET c == Collect(fs, os, hs)
    IN  /\ files' = c.files
        /\ objs' = c.objs
        /\ handles' = c.handles

\* a call on the VirtualFileSystem leaves the rest alone
OnVFS == rn.pc = "idle" /\ UNCHANGED <<Files, vfiles, rn>>

\* main: vfs.LoadFromText(fileList); on an error main returns
Load ==
    /\ phase = "new"
    /\ \E text \in LoadTexts :
          LET r == LoadFromText(files, objs, text, now)
          IN  /\ Store(r.files, r.objs, handles)
              /\ phase' = IF r.err = "nil" THEN "serving" ELSE "halted"
              /\ last' = [op |-> "LoadFromText", h |-> 0, err |-> r.err]
    /\ UNCHANGED <<now, steps>>
    /\ OnVFS

Mkdir ==
    /\ Serving
    /\ OnVFS
    /\ \E name \in Paths :
          LET r == MkdirOp(files, objs, name, now)
          IN  /\ Store(r.files, r.objs, handles)
              /\ last' = [op |-> "Mkdir", h |-> 0, err |-> r.err]

OpenFile ==
    /\ Serving
    /\ OnVFS
    /\ Len(handles) < MaxHandles
    /\ \E name \in Paths, create \in BOOLEAN, excl \in BOOLEAN :
          LET r == OpenFileOp(files, objs, name, create, excl, now)
          IN  /\ Store(r.files, r.objs, handles \o r.h)
              /\ last' = [op |-> "OpenFile", h |-> 0, err |-> r.err]

RemoveAll ==
    /\ Serving
    /\ OnVFS
    /\ \E name \in Paths :
          LET r == RemoveAllOp(files, objs, name)
          IN  /\ Store(r.files, r.objs, handles)
              /\ last' = [op |-> "RemoveAll", h |-> 0, err |-> r.err]

Rename ==
    /\ Serving
    /\ OnVFS
    /\ \E oldName \in Paths, newName \in Paths :
          LET r == RenameOp(files, objs, oldName, newName)
          IN  /\ Store(r.files, r.objs, handles)
              /\ last' = [op |-> "Rename", h |-> 0, err |-> r.err]

Stat ==
    /\ Serving
    /\ OnVFS
    /\ \E name \in Paths :
          last' = [op |-> "Stat", h |-> 0, err |-> StatOp(files, objs, name).err]
    /\ UNCHANGED <<files, objs, handles>>

Close ==
    /\ Serving
    /\ OnVFS
    /\ \E i \in DOMAIN handles :
          LET r == CloseOp(handles[i])
          IN  /\ handles' = [handles EXCEPT ![i] = r.h]
              /\ last' = [op |-> "Close", h |-> i, err |-> r.err]
    /\ UNCHANGED <<files, objs>>

Read ==
    /\ Serving
    /\ OnVFS
    /\ \E i \in DOMAIN handles, len \in 0..MaxLen :
          LET r == ReadOp(handles[i], objs[handles[i].file], len)
          IN  /\ handles' = [handles EXCEPT ![i] = r.h]
              /\ last' = [op |-> "Read", h |-> i, err |-> r.err]
    /\ UNCHANGED <<files, objs>>

Seek ==
    /\ Serving
    /\ OnVFS
    /\ \E i \in DOMAIN handles :
          LET f == objs[handles[i].file]
          IN  \E offset \in SeekOffsets(f), whence \in Whences :
                 LET r == SeekOp(handles[i], f, offset, whence)
                 IN  /\ handles' = [handles EXCEPT ![i] = r.h]
                     /\ last' = [op |-> "Seek", h |-> i, err |-> r.err]
    /\ UNCHANGED <<files, objs>>

Readdir ==
    /\ Serving
    /\ OnVFS
    /\ \E i \in DOMAIN handles, count \in 0..1 :
          last' = [op |-> "Readdir", h |-> i,
                   err |-> ReaddirOp(handles[i], objs[handles[i].file], files, count).err]
    /\ UNCHANGED <<files, objs, handles>>

HandleStat ==
    /\ Serving
    /\ OnVFS
    /\ \E i \in DOMAIN handles :
          last' = [op |-> "Handle.Stat", h |-> i,
                   err |-> HandleStatOp(handles[i], objs[handles[i].file]).err]
    /\ UNCHANGED <<files, objs, handles>>

Write ==
    /\ Serving
    /\ OnVFS
    /\ \E i \in DOMAIN handles, len \in 0..MaxLen :
          LET id == handles[i].file
              r == WriteOp(handles[i], objs[id], len, now)
          IN  /\ objs' = [objs EXCEPT ![id] = r.f]
              /\ last' = [op |-> "Write", h |-> i, err |-> r.err]
    /\ UNCHANGED <<files, handles>>

\* the caller lets go of a handle
Drop ==
    /\ Serving
    /\ OnVFS
    /\ \E i \in DOMAIN handles :
          Store(files, objs,
                SubSeq(handles, 1, i - 1) \o SubSeq(handles, i + 1, Len(handles)))
    /\ last' = [op |-> "drop", h |-> 0, err |-> "nil"]

\* the property names and values of a PROPPATCH
OtherDisplayName == <<"urn:x", "displayname">>
DavAuthor == <<"DAV:", "author">>
Values == {"X", "Y"}

\* the patch sets: DAV: displayname alone, a displayname of another namespace,
\* another property followed by DAV: displayname, a removal
PatchSets ==
    { <<[Remove |-> FALSE, Props |-> <<Prop(DavDisplayName, "X")>>]>>,
      <<[Remove |-> FALSE, Props |-> <<Prop(OtherDisplayName, "Y")>>]>>,
      <<[Remove |-> FALSE, Props |-> <<Prop(DavAuthor, "Y"), Prop(DavDisplayName, "X")>>]>>,
      <<[Remove |-> TRUE, Props |-> <<Prop(DavAuthor, "")>>]>> }

\* Patch on the *VirtualFile at name
Patch ==
    /\ Serving
    /\ OnVFS
    /\ \E name \in DOMAIN files, patches \in PatchSets :
          LET r == PatchOp(objs[files[name]], patches)
          IN  /\ objs' = [objs EXCEPT ![files[name]] = r.f]
              /\ last' = [op |-> "Patch", h |-> 0, err |-> r.err]
    /\ UNCHANGED <<files, handles>>

\* DeadProps on the *VirtualFile at name
DeadProps ==
    /\ Serving
    /\ OnVFS
    /\ \E name \in DOMAIN files :
          last' = [op |-> "DeadProps", h |-> 0, err |-> DeadPropsOp(objs[files[name]]).err]
    /\ UNCHANGED <<files, objs, handles>>

Next ==
    \/ Load
    \/ Mkdir
    \/ OpenFile
    \/ RemoveAll
    \/ Rename
    \/ Stat
    \/ Close
    \/ Read
    \/ Seek
    \/ Readdir
    \/ HandleStat
    \/ Write
    \/ Drop
    \/ Patch
    \/ DeadProps

Spec == Init /\ [][Next]_vars

(***************************************************************************)
(* The program of src/main.go: main loads the file list into the read-only *)
(* TextWebDAVFileSystem, then serves requests.                             *)
(***************************************************************************)

\* the file lists: one declaration, a second one with a root-relative path,
\* a line without a display name
TextTexts ==
    { "/a/x#1#N",
      "/a/x#1#N\nb#2#M",
      "/a/x#1" }

\* the flag of an OpenFile
Flags == {"O_RDONLY", "O_RDWR"}

\* a call on the TextWebDAVFileSystem leaves the rest alone
OnText == UNCHANGED <<files, objs, handles, rn>>

TextLoad ==
    /\ phase = "new"
    /\ \E text \in TextTexts :
          LET r == TextLoadFromText(Files, text)
          IN  /\ Files' = r.Files
              /\ phase' = IF r.err = "nil" THEN "serving" ELSE "halted"
              /\ last' = [op |-> "LoadFromText", h |-> 0, err |-> r.err]
    /\ UNCHANGED <<now, steps, vfiles>>
    /\ OnText

TextOpenFile ==
    /\ Served(MaxTextSteps)
    /\ OnText
    /\ Len(vfiles) < MaxHandles
    /\ \E name \in Paths, flag \in Flags :
          LET r == TextOpenFileOp(Files, name, flag)
          IN  /\ vfiles' = vfiles \o r.f
              /\ last' = [op |-> "OpenFile", h |-> 0, err |-> r.err]
    /\ UNCHANGED Files

TextStat ==
    /\ Served(MaxTextSteps)
    /\ OnText
    /\ \E name \in Paths :
          last' = [op |-> "Stat", h |-> 0, err |-> TextStatOp(Files, name, now).err]
    /\ UNCHANGED <<Files, vfiles>>

\* Mkdir, RemoveAll and Rename of the read-only file system
TextMutate ==
    /\ Served(MaxTextSteps)
    /\ OnText
    /\ \E name \in Paths, newName \in Paths, op \in {"Mkdir", "RemoveAll", "Rename"} :
          LET r == CASE op = "Mkdir" -> TextMkdirOp(Files, name)
                     [] op = "RemoveAll" -> TextRemoveAllOp(Files, name)
                     [] OTHER -> TextRenameOp(Files, name, newName)
          IN  /\ Files' = r.Files
              /\ last' = [op |-> op, h |-> 0, err |-> r.err]
    /\ UNCHANGED vfiles

\* PROPFIND of the DAV: properties of name
TextFind ==
    /\ Served(MaxTextSteps)
    /\ OnText
    /\ \E name \in Paths, propnames \in {{DavDisplayName}, {DavDisplayName, DavAuthor}} :
          last' = [op |-> "Find", h |-> 0,
                   err |-> TextFindOp(Files, name, propnames, now).err]
    /\ UNCHANGED <<Files, vfiles>>

\* PROPPATCH of name
TextPatch ==
    /\ Served(MaxTextSteps)
    /\ OnText
    /\ \E name \in Paths, patches \in PatchSets :
          LET r == TextPatchOp(Files, name, patches)
          IN  /\ Files' = r.Files
              /\ last' = [op |-> "Patch", h |-> 0, err |-> r.err]
    /\ UNCHANGED vfiles

\* the credentials a request may carry
Usernames == {"user1", "guest"}
Passwords == {"pass1", "bad", ""}

\* a request arrives at authMiddleware; without an Authorization header
\* BasicAuth returns "", "", false
TextAuth ==
    /\ Served(MaxTextSteps)
    /\ OnText
    /\ \E ok \in BOOLEAN, username \in Usernames, password \in Passwords :
          LET u == IF ok THEN username ELSE ""
              pw == IF ok THEN password ELSE ""
          IN  last' = [op |-> "auth", h |-> 0,
                       err |-> authMiddlewareOp(Auth, u, pw, ok),
                       username |-> u, password |-> pw, ok |-> ok]
    /\ UNCHANGED <<Files, vfiles>>

VFClose ==
    /\ Served(MaxTextSteps)
    /\ OnText
    /\ \E i \in DOMAIN vfiles :
          LET r == VFCloseOp(vfiles[i])
          IN  /\ vfiles' = [vfiles EXCEPT ![i] = r.f]
              /\ last' = [op |-> "Close", h |-> i, err |-> r.err]
    /\ UNCHANGED Files

VFRead ==
    /\ Served(MaxTextSteps)
    /\ OnText
    /\ \E i \in DOMAIN vfiles, len \in 0..MaxLen :
          LET r == VFReadOp(vfiles[i], Files, len)
          IN  /\ vfiles' = [vfiles EXCEPT ![i] = r.f]
              /\ last' = [op |-> "Read", h |-> i, err |-> r.err]
    /\ UNCHANGED Files

VFWrite ==
    /\ Served(MaxTextSteps)
    /\ OnText
    /\ \E i \in DOMAIN vfiles :
          LET r == VFWriteOp(vfiles[i])
          IN  /\ vfiles' = [vfiles EXCEPT ![i] = r.f]
              /\ last' = [op |-> "Write", h |-> i, err |-> r.err]
    /\ UNCHANGED Files

VFSeek ==
    /\ Served(MaxTextSteps)
    /\ OnText
    /\ \E i \in DOMAIN vfiles :
          LET meta == Files[vfiles[i].meta]
          IN  \E offset \in (-1..MaxOffset) \cup {meta.Size, meta.Size + Beyond},
                 whence \in Whences :
                 LET r == VFSeekOp(vfiles[i], Files, offset, whence)
                 IN  /\ vfiles' = [vfiles EXCEPT ![i] = r.f]
                     /\ last' = [op |-> "Seek", h |-> i, err |-> r.err]
    /\ UNCHANGED Files

VFReaddir ==
    /\ Served(MaxTextSteps)
    /\ OnText
    /\ \E i \in DOMAIN vfiles :
          last' = [op |-> "Readdir", h |-> i, err |-> VFReaddirOp(vfiles[i]).err]
    /\ UNCHANGED <<Files, vfiles>>

VFStat ==
    /\ Served(MaxTextSteps)
    /\ OnText
    /\ \E i \in DOMAIN vfiles :
          last' = [op |-> "Handle.Stat", h |-> i,
                   err |-> VFStatOp(vfiles[i], Files, now).err]
    /\ UNCHANGED <<Files, vfiles>>

TextNext ==
    \/ TextLoad
    \/ TextOpenFile
    \/ TextStat
    \/ TextMutate
    \/ VFClose
    \/ VFRead
    \/ VFWrite
    \/ VFSeek
    \/ VFReaddir
    \/ VFStat
    \/ TextFind
    \/ TextPatch
    \/ TextAuth

SpecText == Init /\ [][TextNext]_vars

(***************************************************************************)
(* Requests of part_003 served concurrently.  net/http runs each request   *)
(* in its own goroutine and VirtualFileSystem has no lock, so the map      *)
(* operations of a Rename interleave with the calls of other requests.     *)
(* rn is the Rename under way: the loop it is in (pc), its arguments, the  *)
(* children map it collected, the keys still to insert (todo), and the     *)
(* store it started from (before).                                         *)
(***************************************************************************)

\* the keys the delete loop of the Rename under way has still to delete
ToDelete ==
    IF rn.isDir THEN {path \in DOMAIN files : InSubtree(path, rn.oldName)}
    ELSE {rn.oldName} \cap DOMAIN files

\* Rename, up to the end of the loop that collects children
RenameBegin ==
    /\ Served(MaxConcSteps)
    /\ rn.pc = "idle"
    /\ \E oldName \in Paths, newName \in Paths :
          IF oldName \notin DOMAIN files
          THEN /\ last' = [op |-> "Rename", h |-> 0, err |-> "ErrNotExist"]
               /\ rn' = rn
          ELSE LET isDir == objs[files[oldName]].isDir
                   moved == IF isDir
                            THEN {path \in DOMAIN files : InSubtree(path, oldName)}
                            ELSE {oldName}
                   newPath(path) == newName \o TrimPrefix(path, oldName)
                   to == {newPath(path) : path \in moved}
                   from(q) == CHOOSE path \in moved : newPath(path) = q
               IN  /\ rn' = [pc |-> "delete", oldName |-> oldName, newName |-> newName,
                             isDir |-> isDir,
                             children |-> [q \in to |-> files[from(q)]],
                             todo |-> to, before |-> files]
                   /\ last' = [op |-> "Rename", h |-> 0, err |-> "running"]
    /\ UNCHANGED <<files, objs, handles, Files, vfiles>>

\* Rename, one delete(vfs.files, path) of its second loop
RenameDelete ==
    /\ phase = "serving"
    /\ rn.pc = "delete"
    /\ \E path \in ToDelete :
          /\ files' = [q \in DOMAIN files \ {path} |-> files[q]]
          /\ rn' = [rn EXCEPT !.pc = IF ToDelete = {path} THEN "insert" ELSE "delete"]
    /\ UNCHANGED <<phase, objs, handles, now, last, steps, Files, vfiles>>

\* Rename, one vfs.files[newPath] = file of its last loop; after the last
\* one the call returns nil
RenameInsert ==
    /\ phase = "serving"
    /\ rn.pc = "insert"
    /\ \E newPath \in rn.todo :
          /\ files' = [q \in DOMAIN files \cup {newPath} |->
                          IF q = newPath THEN rn.children[newPath] ELSE files[q]]
          /\ IF rn.todo = {newPath}
             THEN /\ rn' = [pc |-> "idle"]
                  /\ last' = [op |-> "Rename", h |-> 0, err |-> "nil"]
             ELSE /\ rn' = [rn EXCEPT !.todo = rn.todo \ {newPath}]
                  /\ last' = last
    /\ UNCHANGED <<phase, objs, handles, now, steps, Files, vfiles>>

\* another request calls Stat, whatever the Rename is doing
ConcStat ==
    /\ Served(MaxConcSteps)
    /\ \E name \in Paths :
          last' = [op |-> "Stat", h |-> 0, err |-> StatOp(files, objs, name).err]
    /\ UNCHANGED <<files, objs, handles, Files, vfiles, rn>>

\* another request opens an existing file or directory
ConcOpenFile ==
    /\ Served(MaxConcSteps)
    /\ Len(handles) < MaxHandles
    /\ \E name \in Paths :
          LET r == OpenFileOp(files, objs, name, FALSE, FALSE, now)
          IN  /\ handles' = handles \o r.h
              /\ last' = [op |-> "OpenFile", h |-> 0, err |-> r.err]
    /\ UNCHANGED <<files, objs, Files, vfiles, rn>>

\* another request calls Readdir, whatever the Rename is doing
ConcReaddir ==
    /\ Served(MaxConcSteps)
    /\ \E i \in DOMAIN handles :
          last' = [op |-> "Readdir", h |-> i,
                   err |-> ReaddirOp(handles[i], objs[handles[i].file], files, 0).err]
    /\ UNCHANGED <<files, objs, handles, Files, vfiles, rn>>

\* a map access of a reader that coincides with a map write of the Rename:
\* the runtime may detect it and end the process ("fatal error: concurrent
\* map read and map write")
ConcFault ==
    /\ phase = "serving"
    /\ rn.pc # "idle"
    /\ phase' = "crashed"
    /\ last' = [op |-> "fatal", h |-> 0, err |-> "concurrent map read and map write"]
    /\ UNCHANGED <<files, objs, handles, now, steps, Files, vfiles, rn>>

ConcNext ==
    \/ Load
    \/ RenameBegin
    \/ RenameDelete
    \/ RenameInsert
    \/ ConcStat
    \/ ConcOpenFile
    \/ ConcReaddir
    \/ ConcFault

SpecConc == Init /\ [][ConcNext]_vars

(***************************************************************************)
(* The program of src/unnamed/part_001 (lines 303-677).                   *)
(***************************************************************************)

Max001Steps == 3

Load001 ==
    /\ phase = "new"
    /\ \E text \in LoadTexts :
          LET r == LoadFromText001(files, objs, text, now)
          IN  /\ Store(r.files, r.objs, handles)
              /\ phase' = IF r.err = "nil" THEN "serving" ELSE "halted"
              /\ last' = [op |-> "LoadFromText", h |-> 0, err |-> r.err]
    /\ UNCHANGED <<now, steps>>
    /\ OnVFS

Mkdir001 ==
    /\ Served(Max001Steps)
    /\ OnVFS
    /\ \E name \in Paths :
          LET r == Mkdir001Op(files, objs, name, now)
          IN  /\ Store(r.files, r.objs, handles)
              /\ last' = [op |-> "Mkdir", h |-> 0, err |-> r.err]

RemoveAll001 ==
    /\ Served(Max001Steps)
    /\ OnVFS
    /\ \E name \in Paths :
          LET r == RemoveAll001Op(files, objs, name)
          IN  /\ Store(r.files, r.objs, handles)
              /\ last' = [op |-> "RemoveAll", h |-> 0, err |-> r.err]

Rename001 ==
    /\ Served(Max001Steps)
    /\ OnVFS
    /\ \E oldName \in Paths, newName \in Paths :
          LET r == RenameOp(files, objs, oldName, newName)
          IN  /\ Store(r.files, r.objs, handles)
              /\ last' = [op |-> "Rename", h |-> 0, err |-> r.err]

Stat001 ==
    /\ Served(Max001Steps)
    /\ OnVFS
    /\ \E name \in Paths :
          last' = [op |-> "Stat", h |-> 0, err |-> Stat001Op(files, objs, name).err]
    /\ UNCHANGED <<files, objs, handles>>

Next001 ==
    \/ Load001
    \/ Mkdir001
    \/ RemoveAll001
    \/ Rename001
    \/ Stat001

Spec001 == Init /\ [][Next001]_vars

(***************************************************************************)
(* LoadFromText on its own: main hands one file list to the loader of      *)
(* part_003 or to the loader of main.go (lines 100-146).  The file list    *)
(* is kept in last.text.                                                   *)
(***************************************************************************)

MaxLines == 2

\* the lines of a file list: three fields, two fields, a relative path two
\* directories deep, a file at the path of a directory, one field, a size
\* that is no number, a blank third field, a negative size, a comment
Lines ==
    { "/a/x#1#N", "/a/y#2", "b/c/z#3#M", "/a#5#F", "/a/x", "/b/y#zz#K",
      "/a/x#1# ", "/c#-1#G", "# c" }

\* the file lists of at most MaxLines lines
RECURSIVE TextsOf(_)
TextsOf(n) ==
    IF n = 1 THEN Lines
    ELSE TextsOf(n - 1) \cup {text \o "\n" \o line : text \in TextsOf(n - 1), line \in Lines}

InitLoad ==
    /\ phase = "new"
    /\ files = <<>>
    /\ objs = <<>>
    /\ handles = <<>>
    /\ now = 0
    /\ \E text \in TextsOf(MaxLines) :
          last = [op |-> "none", h |-> 0, err |-> "nil", text |-> text]
    /\ steps = 0
    /\ Files = <<>>
    /\ vfiles = <<>>
    /\ rn = [pc |-> "idle"]

\* main of part_003 loads the file list
LoadVFS ==
    /\ phase = "new"
    /\ LET r == LoadFromText(files, objs, last.text, now)
       IN  /\ Store(r.files, r.objs, handles)
           /\ phase' = IF r.err = "nil" THEN "serving" ELSE "halted"
           /\ last' = [op |-> "LoadFromText", h |-> 0, err |-> r.err, text |-> last.text]
    /\ UNCHANGED <<now, steps>>
    /\ OnVFS

\* main of main.go loads the file list
LoadText ==
    /\ phase = "new"
    /\ LET r == TextLoadFromText(Files, last.text)
       IN  /\ Files' = r.Files
           /\ phase' = IF r.err = "nil" THEN "serving" ELSE "halted"
           /\ last' = [op |-> "TextLoadFromText", h |-> 0, err |-> r.err, text |-> last.text]
    /\ UNCHANGED <<now, steps, vfiles>>
    /\ OnText

\* main of main.go (lines 442-483) loads the file list
LoadText2 ==
    /\ phase = "new"
    /\ LET r == TextLoadFromText2(Files, last.text, now)
       IN  /\ Files' = r.Files
           /\ phase' = IF r.err = "nil" THEN "serving" ELSE "halted"
           /\ last' = [op |-> "TextLoadFromText2", h |-> 0, err |-> r.err, text |-> last.text]
    /\ UNCHANGED <<now, steps, vfiles>>
    /\ OnText

NextLoad ==
    \/ LoadVFS
    \/ LoadText
    \/ LoadText2

SpecLoad == InitLoad /\ [][NextLoad]_vars

(***************************************************************************)
(* The program of part_003 with the clock: time.Now() is read by the       *)
(* loader, by OpenFile and by Write, and time passes between requests.     *)
(***************************************************************************)

MaxNow == 1

\* time passes
Tick ==
    /\ phase = "serving"
    /\ now < MaxNow
    /\ now' = now + 1
    /\ UNCHANGED <<phase, files, objs, handles, last, steps, Files, vfiles, rn>>

NextTime ==
    \/ Load
    \/ OpenFile
    \/ Write
    \/ Rename
    \/ Patch
    \/ Tick

SpecTime == Init /\ [][NextTime]_vars

(***************************************************************************)
(* The program of part_003 with two handles open at a time: what a handle  *)
(* sees of the *VirtualFile it was opened on while the map changes.  Each  *)
(* request records its arguments in last.                                  *)
(***************************************************************************)
MaxShareSteps == 3
MaxShareHandles == 2

Sharing == Served(MaxShareSteps)

\* the names of the requests: a directory, a file, a name not in the list
SharePaths == {"/a", "/a/x", "/b/x"}

\* the request served last: the call, the handle, its error, the name and
\* the length it was given
Call(op, h, err, name, n) == [op |-> op, h |-> h, err |-> err, name |-> name, n |-> n]

ShareLoad ==
    /\ phase = "new"
    /\ \E text \in LoadTexts :
          LET r == LoadFromText(files, objs, text, now)
          IN  /\ Store(r.files, r.objs, handles)
              /\ phase' = IF r.err = "nil" THEN "serving" ELSE "halted"
              /\ last' = Call("LoadFromText", 0, r.err, "", 0)
    /\ UNCHANGED <<now, steps>>
    /\ OnVFS

ShareOpenFile ==
    /\ Sharing
    /\ OnVFS
    /\ Len(handles) < MaxShareHandles
    /\ \E name \in SharePaths, create \in BOOLEAN, excl \in BOOLEAN :
          LET r == OpenFileOp(files, objs, name, create, excl, now)
          IN  /\ Store(r.files, r.objs, handles \o r.h)
              /\ last' = Call("OpenFile", Len(handles \o r.h), r.err, name, 0)

ShareRemoveAll ==
    /\ Sharing
    /\ OnVFS
    /\ \E name \in SharePaths :
          LET r == RemoveAllOp(files, objs, name)
          IN  /\ Store(r.files, r.objs, handles)
              /\ last' = Call("RemoveAll", 0, r.err, name, 0)

ShareRename ==
    /\ Sharing
    /\ OnVFS
    /\ \E oldName \in SharePaths, newName \in SharePaths :
          LET r == RenameOp(files, objs, oldName, newName)
          IN  /\ Store(r.files, r.objs, handles)
              /\ last' = Call("Rename", 0, r.err, oldName, 0)

ShareWrite ==
    /\ Sharing
    /\ OnVFS
    /\ \E i \in DOMAIN handles, len \in 0..MaxLen :
          LET id == handles[i].file
              r == WriteOp(handles[i], objs[id], len, now)
          IN  /\ objs' = [objs EXCEPT ![id] = r.f]
              /\ last' = Call("Write", i, r.err, "", len)
    /\ UNCHANGED <<files, handles>>

NextShare ==
    \/ ShareLoad
    \/ ShareOpenFile
    \/ ShareRemoveAll
    \/ ShareRename
    \/ ShareWrite

SpecShare == Init /\ [][NextShare]_vars

(***************************************************************************)
(* The program of part_003 serving OpenFile requests on goroutines of      *)
(* their own: VirtualFileSystem has no lock, so between the lookup of      *)
(* OpenFile and its vfs.files[name] = f another request may run.  rn.calls *)
(* holds the requests in the order in which they did their lookup.         *)
(***************************************************************************)
MaxRequests == 2

\* the requests begun so far
Calls == IF rn.pc = "open" THEN rn.calls ELSE <<>>

\* OpenFile up to the test of flag&os.O_CREATE: a call that found the name
\* or may not create returns here, the others go on to build the file
ExclOpenFile ==
    /\ Served(MaxRequests)
    /\ \E name \in Paths, create \in BOOLEAN, excl \in BOOLEAN :
          LET call == [name |-> name, create |-> create, excl |-> excl]
          IN  IF name \in DOMAIN files \/ ~create
              THEN LET r == OpenFileOp(files, objs, name, create, excl, now)
                   IN  /\ Store(r.files, r.objs, handles \o r.h)
                       /\ rn' = [pc |-> "open",
                                 calls |-> Append(Calls, call @@ [at |-> "done", err |-> r.err,
                                                                  h |-> Len(handles \o r.h)])]
                       /\ last' = [op |-> "OpenFile", h |-> 0, err |-> r.err]
              ELSE /\ rn' = [pc |-> "open",
                             calls |-> Append(Calls, call @@ [at |-> "create", err |-> "running",
                                                              h |-> 0])]
                   /\ last' = [op |-> "OpenFile", h |-> 0, err |-> "running"]
                   /\ UNCHANGED <<files, objs, handles>>
    /\ UNCHANGED <<Files, vfiles>>

\* OpenFile from f = &VirtualFile{...} to its return: the file is stored at
\* the name whatever the map holds there by now
ExclCreate ==
    /\ phase = "serving"
    /\ rn.pc = "open"
    /\ \E g \in DOMAIN rn.calls :
          /\ rn.calls[g].at = "create"
          /\ LET name == rn.calls[g].name
                 st == Put([files |-> files, objs |-> objs, err |-> "nil"], name,
                           MkFile(Base(name), Base(name), 0, now, FALSE))
             IN  /\ Store(st.files, st.objs, handles \o <<MkHandle(st.files[name])>>)
                 /\ rn' = [rn EXCEPT !.calls[g].at = "done", !.calls[g].err = "nil",
                                     !.calls[g].h = Len(handles) + 1]
                 /\ last' = [op |-> "OpenFile", h |-> 0, err |-> "nil"]
    /\ UNCHANGED <<phase, now, steps, Files, vfiles>>

\* two calls write the map at once: the runtime may detect it and end the
\* process ("fatal error: concurrent map writes")
ExclFault ==
    /\ phase = "serving"
    /\ rn.pc = "open"
    /\ \E g1 \in DOMAIN rn.calls, g2 \in DOMAIN rn.calls :
          g1 # g2 /\ rn.calls[g1].at = "create" /\ rn.calls[g2].at = "create"
    /\ phase' = "crashed"
    /\ last' = [op |-> "fatal", h |-> 0, err |-> "concurrent map writes"]
    /\ UNCHANGED <<files, objs, handles, now, steps, Files, vfiles, rn>>

NextExcl ==
    \/ Load
    \/ ExclOpenFile
    \/ ExclCreate
    \/ ExclFault

SpecExcl == Init /\ [][NextExcl]_vars

(***************************************************************************)
(* What the properties below are stated with.                              *)
(***************************************************************************)

\* the paths a property ranges over: those of the requests and the keys
Known == Paths \cup DOMAIN files

\* p is a key of a directory
IsDirKey(fs, os, p) == p \in DOMAIN fs /\ os[fs[p]].isDir

\* the ancestor levels of a path: its parent, its parent's parent, ...
RECURSIVE Ancestors(_)
Ancestors(p) == LET d == Dir(p) IN IF d = p THEN {} ELSE {d} \cup Ancestors(d)

\* the call that led to this state succeeded
Did(op) == last.op = op /\ last.err = "nil"

(***************************************************************************)
(* C1. Hierarchy closure: every successful LoadFromText, Mkdir, creating   *)
(* OpenFile or Rename that starts from a store in which every key other    *)
(* than "/" has its parent path as a key ends in such a store, so that the *)
(* closure holds after any sequence of them.                               *)
(***************************************************************************)
HierarchyClosed(fs) == \A p \in DOMAIN fs : p # "/" => Dir(p) \in DOMAIN fs

C1_Builders == {"LoadFromText", "Mkdir", "OpenFile", "Rename"}

C1_HierarchyClosure ==
    [][ (/\ last'.op \in C1_Builders
         /\ last'.err = "nil"
         /\ HierarchyClosed(files))
        => HierarchyClosed(files') ]_vars

(***************************************************************************)
(* C2. Rename subtree consistency: for distinct paths old and new where    *)
(* neither lies inside the other's subtree and old is a directory, a       *)
(* successful Rename(old, new) leaves Stat(new) succeeding as a directory, *)
(* Stat(old) failing with ErrNotExist, every former descendant old+s       *)
(* resolving at new+s (to the file it was), and no key equal to old or     *)
(* prefixed by old+"/" in the store.                                       *)
(***************************************************************************)
C2_Post(old, new) ==
    LET r == RenameOp(files, objs, old, new)
        atNew == StatOp(r.files, r.objs, new)
    IN  r.err = "nil" =>
           /\ atNew.err = "nil" /\ atNew.info[1].isDir
           /\ StatOp(r.files, r.objs, old).err = "ErrNotExist"
           /\ \A p \in DOMAIN files :
                 HasPrefix(p, old \o "/") =>
                    LET q == new \o TrimPrefix(p, old)
                    IN  /\ StatOp(r.files, r.objs, q).err = "nil"
                        /\ r.objs[r.files[q]] = objs[files[p]]
           /\ \A k \in DOMAIN r.files : ~InSubtree(k, old)

C2_RenameSubtree ==
    \A old \in Known, new \in Known :
       (/\ old # new
        /\ ~InSubtree(old, new)
        /\ ~InSubtree(new, old)
        /\ IsDirKey(files, objs, old))
       => C2_Post(old, new)

\* Rename("/a", "/b") has moved the loaded directory and its child
C2_Witness ==
    /\ Did("Rename")
    /\ IsDirKey(files, objs, "/b")
    /\ objs[files["/b"]].name = "a"
    /\ "/b/x" \in DOMAIN files
    /\ objs[files["/b/x"]].displayName = "N"
    /\ "/a" \notin DOMAIN files
    /\ "/a/x" \notin DOMAIN files

(***************************************************************************)
(* C4. Remove cascade: for every directory key P with N descendants (the   *)
(* keys strictly beneath P in the hierarchy), RemoveAll(P) succeeds and    *)
(* removes exactly P and its N descendants, and Stat of each of them then  *)
(* returns ErrNotExist.                                                    *)
(***************************************************************************)
Descendants(fs, P) == {q \in DOMAIN fs : P \in Ancestors(q)}

C4_RemoveCascade ==
    \A P \in DOMAIN files :
       objs[files[P]].isDir =>
          LET r == RemoveAllOp(files, objs, P)
              gone == {P} \cup Descendants(files, P)
          IN  /\ r.err = "nil"
              /\ DOMAIN files \ DOMAIN r.files = gone
              /\ \A q \in gone : StatOp(r.files, r.objs, q).err = "ErrNotExist"

(***************************************************************************)
(* C5. Listing completeness: after a successful LoadFromText, for every    *)
(* file key P and every ancestor level A of P, OpenFile(A) succeeds and    *)
(* Readdir on the handle returns the child of A on the path to P.          *)
(***************************************************************************)
\* the keys Readdir returns on a fresh handle opened on A, <<>> if it cannot
Listing(A) ==
    LET o == OpenFileOp(files, objs, A, FALSE, FALSE, now)
    IN  IF o.err # "nil" THEN <<>>
        ELSE LET rd == ReaddirOp(o.h[1], o.objs[o.h[1].file], o.files, 0)
             IN  IF rd.err # "nil" THEN <<>> ELSE <<CHOOSE ks \in rd.infos : TRUE>>

C5_ListingComplete ==
    Did("LoadFromText") =>
       \A P \in DOMAIN files :
          ~objs[files[P]].isDir =>
             \A A \in Ancestors(P) :
                /\ Listing(A) # <<>>
                /\ \E c \in Listing(A)[1] : Dir(c) = A /\ (c = P \/ c \in Ancestors(P))

(***************************************************************************)
(* C6. Readdir on an open handle bound to the directory at key D returns   *)
(* exactly the keys whose parent path is D and which differ from D.        *)
(***************************************************************************)
C6_ReaddirExact ==
    \A i \in DOMAIN handles, D \in DOMAIN files :
       (/\ files[D] = handles[i].file
        /\ objs[files[D]].isDir
        /\ ~handles[i].closed)
       => LET rd == ReaddirOp(handles[i], objs[handles[i].file], files, 0)
          IN  /\ rd.err = "nil"
              /\ rd.infos = {{p \in DOMAIN files : Dir(p) = D /\ p # D}}

(***************************************************************************)
(* C7. Stat of an implied directory: for a path D that is not a key while  *)
(* some key starts with D+"/", Stat(D) succeeds with isDir and size 0; and *)
(* Stat(D) returns ErrNotExist when D is not a key and no key starts with  *)
(* D+"/".                                                                  *)
(***************************************************************************)
Implied(fs, D) == D \notin DOMAIN fs /\ \E p \in DOMAIN fs : HasPrefix(p, D \o "/")

C7_ImpliedStat ==
    \A D \in Known \cup UNION {Ancestors(p) : p \in Known} :
       LET st == StatOp(files, objs, D)
       IN  /\ Implied(files, D) =>
                st.err = "nil" /\ st.info[1].isDir /\ st.info[1].size = 0
           /\ (D \notin DOMAIN files /\ ~Implied(files, D)) => st.err = "ErrNotExist"

(***************************************************************************)
(* C8. After loading the single declaration "/a/x#1#N", Stat("/a") reports *)
(* a directory of size 0, Stat("/a/x") reports a non-directory of size 1   *)
(* named N, and the listing of "/a" is exactly the entry of "/a/x".        *)
(***************************************************************************)
C8_Loaded == LoadFromText(<<>>, <<>>, "/a/x#1#N", 0)

C8_Scenario ==
    (Did("LoadFromText") /\ DOMAIN files = DOMAIN C8_Loaded.files) =>
       LET d == StatOp(files, objs, "/a")
           f == StatOp(files, objs, "/a/x")
       IN  /\ d.err = "nil" /\ d.info[1].isDir /\ d.info[1].size = 0
           /\ f.err = "nil" /\ ~f.info[1].isDir /\ f.info[1].size = 1
           /\ f.info[1].name = "N"
           /\ Listing("/a") = <<{"/a/x"}>>

(***************************************************************************)
(* C9. Seek/read boundary: on a handle of a file declared with size S,     *)
(* Seek(S, start) succeeds and a Read after it returns 0 bytes and EOF;    *)
(* Seek(S+100, start) succeeds and a Read after it returns 0 bytes and     *)
(* EOF; Seek(-1, start) fails with the negative-position error.            *)
(***************************************************************************)
\* Seek(offset, start) and then Read into a non-empty buffer end in EOF
C9_EndOfFile(f, offset) ==
    LET sk == VFSeekOp(f, Files, offset, SeekStart)
    IN  /\ sk.err = "nil"
        /\ \A len \in 1..MaxLen :
              LET rd == VFReadOp(sk.f, Files, len)
              IN  rd.n = 0 /\ rd.err = "EOF"

C9_SeekReadBoundary ==
    \A i \in DOMAIN vfiles :
       LET f == vfiles[i]
           S == Files[f.meta].Size
       IN  /\ C9_EndOfFile(f, S)
           /\ C9_EndOfFile(f, S + Beyond)
           /\ VFSeekOp(f, Files, -1, SeekStart).err = "negative position"

(***************************************************************************)
(* C10. Session-handle lifecycle: the call that follows a successful Close *)
(* on the same handle, be it Read, Write, Seek, Readdir, Stat or Close,    *)
(* fails with ErrClosed and changes neither the handle nor the entry.      *)
(***************************************************************************)
C10_HandleOps == {"Read", "Write", "Seek", "Readdir", "Handle.Stat", "Close"}

C10_ClosedHandle ==
    [][ (/\ last.op = "Close"
         /\ last.err = "nil"
         /\ last'.h = last.h
         /\ last'.op \in C10_HandleOps)
        => (/\ last'.err = "ErrClosed"
            /\ UNCHANGED <<Files, vfiles, files, objs, handles>>) ]_vars

(***************************************************************************)
(* C3. Rename atomicity: a Readdir of another request that runs while a    *)
(* Rename is under way returns the listing of the store before the Rename  *)
(* or the listing of the store after it, never one of a store in which     *)
(* only some of the paths have moved.                                      *)
(***************************************************************************)
\* what Readdir on handle i returns when the store is fs
C3_Listing(i, fs) == ReaddirOp(handles[i], objs[handles[i].file], fs, 0).infos

C3_RenameAtomic ==
    (rn.pc # "idle" /\ last.op = "Readdir" /\ last.err = "nil") =>
       LET after == RenameOp(rn.before, objs, rn.oldName, rn.newName).files
       IN  C3_Listing(last.h, files) \in
              {C3_Listing(last.h, rn.before), C3_Listing(last.h, after)}

\* the patch set that sets DAV: displayname to X
SetDisplayName(X) == <<[Remove |-> FALSE, Props |-> <<Prop(DavDisplayName, X)>>]>>

\* the stores of the TextWebDAVFileSystem: loaded, and loaded then patched
TextLoaded == {TextLoadFromText(<<>>, text).Files : text \in TextTexts}
TextStores ==
    TextLoaded \cup
    {TextPatchOp(Fs, name, patches).Files :
        Fs \in TextLoaded, name \in Paths, patches \in PatchSets}

\* C11, in the TextWebDAVFileSystem: Find after Patch answers X
C11_FindAfterPatch ==
    \A Fs \in TextStores : \A name \in DOMAIN Fs : \A X \in Values :
        LET r == TextPatchOp(Fs, name, SetDisplayName(X))
            q == TextFindOp(r.Files, name, {DavDisplayName}, now)
        IN  /\ r.err = "nil" /\ q.err = "nil"
            /\ DavDisplayName \in DOMAIN q.props
            /\ q.props[DavDisplayName] = X
            /\ r.Files[name].DisplayName = X

\* C11: for every existing entry and every value X, a Patch of DAV:
\* displayname to X followed by a read of the entry's properties (DeadProps of
\* either VirtualFile, Find of the CustomPropSystem) returns a displayname
\* property of value X, and the entry's displayName field is X
C11_PropertyRoundTrip ==
    /\ \A name \in DOMAIN files : \A X \in Values :
          LET r == PatchOp(objs[files[name]], SetDisplayName(X))
              q == DeadPropsOp(r.f)
              q001 == DeadProps001Op(r.f)
          IN  /\ r.err = "nil" /\ q.err = "nil" /\ q001.err = "nil"
              /\ DavDisplayName \in DOMAIN q.props
              /\ q.props[DavDisplayName] = X
              /\ DavDisplayName \in DOMAIN q001.props
              /\ q001.props[DavDisplayName] = X
              /\ r.f.displayName = X
    /\ C11_FindAfterPatch

\* a Patch has set an entry's displayname to "X"
C11_Witness ==
    /\ Did("Patch")
    /\ \E name \in DOMAIN files :
          /\ objs[files[name]].displayName = "X"
          /\ DeadPropsOp(objs[files[name]]).props[DavDisplayName] = "X"

\* C12: in every reachable state every entry of the store has a DAV:
\* displayname property whose value is the entry's displayName field, also
\* after a Patch of a "displayname" property of another namespace
C12_DisplayNameSync ==
    \A name \in DOMAIN files :
        LET f == objs[files[name]]
        IN  /\ DavDisplayName \in DOMAIN f.properties
            /\ f.properties[DavDisplayName] = f.displayName

\* the property names a list of Propstat accounts for
Named(propstats) ==
    UNION {{propstats[i].Props[j].XMLName : j \in DOMAIN propstats[i].Props} :
              i \in DOMAIN propstats}

PatchedNames(patches) ==
    LET props == AllProps(patches) IN {props[i].XMLName : i \in DOMAIN props}

\* C13: the status list Patch returns accounts for every property of the
\* patch set: each patched property name appears in it with its status
C13_PerPropertyStatus ==
    \A name \in DOMAIN files : \A patches \in PatchSets :
        PatchedNames(patches) \subseteq Named(PatchOp(objs[files[name]], patches).propstats)

\* what a refused call leaves: the same Files map, FileMeta by FileMeta
Refused(r, Fs) == r.err = "ErrPermission" /\ r.Files = Fs

\* C14: in the read-only TextWebDAVFileSystem Mkdir, RemoveAll, Rename and
\* VirtualFile.Write return os.ErrPermission from every state and for every
\* argument, and leave the Files map, every FileMeta and every handle's
\* position unchanged
C14_ReadOnly ==
    [][ /\ \A name \in Paths : /\ Refused(TextMkdirOp(Files, name), Files)
                               /\ Refused(TextRemoveAllOp(Files, name), Files)
                               /\ \A newName \in Paths :
                                     Refused(TextRenameOp(Files, name, newName), Files)
        /\ \A i \in DOMAIN vfiles :
              LET r == VFWriteOp(vfiles[i])
              IN  r.err = "ErrPermission" /\ r.n = 0 /\ r.f = vfiles[i]
        /\ (steps' # steps /\ last'.op \in {"Mkdir", "RemoveAll", "Rename", "Write"})
              => /\ last'.err = "ErrPermission"
                 /\ Files' = Files
                 /\ vfiles' = vfiles ]_vars

\* a Write was refused on a handle that a Read had moved, in a loaded store
C14_Witness ==
    /\ last.op = "Write" /\ last.err = "ErrPermission"
    /\ last.h \in DOMAIN vfiles /\ vfiles[last.h].pos > 0
    /\ DOMAIN Files # {}

\* the store r is the store <<fs, os>> with every entry as it was
SameEntries(r, fs, os) ==
    \A q \in DOMAIN fs : q \in DOMAIN r.files /\ r.objs[r.files[q]] = os[fs[q]]

\* the store r is exactly the store <<fs, os>>
SameStore(r, fs, os) == r.files = fs /\ r.objs = os

\* C15: OpenFile returns ErrNotExist on an absent path without O_CREATE and
\* ErrExist on a present path with O_CREATE and O_EXCL, the store unchanged
\* in both cases; on an absent path with O_CREATE it inserts one new
\* non-directory entry of size 0 and returns a handle on it at offset 0;
\* otherwise it returns a handle on the existing entry and the store is
\* unchanged
C15_OpenFileOutcomes ==
    \A name \in Paths, create \in BOOLEAN, excl \in BOOLEAN :
        LET r == OpenFileOp(files, objs, name, create, excl, now)
        IN  CASE name \notin DOMAIN files /\ ~create ->
                    r.err = "ErrNotExist" /\ r.h = <<>> /\ SameStore(r, files, objs)
              [] name \notin DOMAIN files /\ create ->
                    /\ r.err = "nil"
                    /\ DOMAIN r.files = DOMAIN files \cup {name}
                    /\ SameEntries(r, files, objs)
                    /\ ~r.objs[r.files[name]].isDir
                    /\ r.objs[r.files[name]].size = 0
                    /\ \A q \in DOMAIN files : r.files[q] # r.files[name]
                    /\ Len(r.h) = 1
                    /\ r.h[1].file = r.files[name] /\ r.h[1].offset = 0
              [] name \in DOMAIN files /\ create /\ excl ->
                    r.err = "ErrExist" /\ r.h = <<>> /\ SameStore(r, files, objs)
              [] OTHER ->
                    /\ r.err = "nil"
                    /\ SameStore(r, files, objs)
                    /\ Len(r.h) = 1
                    /\ r.h[1].file = files[name] /\ r.h[1].offset = 0

\* OpenFile has created "/b/x" and returned a handle on it
C15_Witness ==
    /\ Did("OpenFile")
    /\ "/b/x" \in DOMAIN files
    /\ ~objs[files["/b/x"]].isDir /\ objs[files["/b/x"]].size = 0
    /\ Len(handles) = 1 /\ handles[1].file = files["/b/x"] /\ handles[1].offset = 0

\* C16: Mkdir on a path already present, file or directory, returns ErrExist
\* and leaves the store unchanged; Mkdir on an absent path inserts exactly one
\* entry, a directory of size 0 at that path, and changes no other entry
C16_MkdirOutcomes ==
    \A name \in Paths :
        LET r == MkdirOp(files, objs, name, now)
        IN  IF name \in DOMAIN files
            THEN r.err = "ErrExist" /\ SameStore(r, files, objs)
            ELSE /\ r.err = "nil"
                 /\ DOMAIN r.files = DOMAIN files \cup {name}
                 /\ SameEntries(r, files, objs)
                 /\ \A q \in DOMAIN files : r.files[q] = files[q]
                 /\ r.objs[r.files[name]].isDir
                 /\ r.objs[r.files[name]].size = 0

\* Mkdir has created the directory "/b/x" although "/b" is absent, and has
\* been refused on a file
C16_Witness ==
    /\ Did("Mkdir")
    /\ "/b/x" \in DOMAIN files /\ "/b" \notin DOMAIN files
    /\ objs[files["/b/x"]].isDir /\ objs[files["/b/x"]].size = 0
    /\ "/a/x" \in DOMAIN files /\ ~objs[files["/a/x"]].isDir
    /\ MkdirOp(files, objs, "/a/x", now).err = "ErrExist"

\* C17: while the store is served, RemoveAll(P) returns ErrNotExist and leaves the store unchanged when
\* no entry is P or starts with P + "/"; a RemoveAll(P) that succeeds leaves
\* every entry that is neither P nor under P + "/" as it was
C17_RemoveAllNotFound ==
    phase = "serving" => \A P \in Paths :
        LET r == RemoveAll001Op(files, objs, P)
            matching == {q \in DOMAIN files : q = P \/ HasPrefix(q, P \o "/")}
        IN  /\ matching = {} => r.err = "ErrNotExist" /\ SameStore(r, files, objs)
            /\ r.err = "nil" =>
                  \A q \in DOMAIN files \ matching :
                      q \in DOMAIN r.files /\ r.objs[r.files[q]] = objs[files[q]]

\* a request of another goroutine reads the store in this step
ReadStep == steps' # steps /\ last'.op \in {"Stat", "OpenFile", "Readdir"}

\* C18: no read operation (Stat, OpenFile, Readdir) has its access to the
\* entry store while a structural operation, here a Rename between its
\* first delete and its last insert, has its own
C18_LockDiscipline == [][rn.pc # "idle" => ~ReadStep]_vars

\* C19: a request reaches the WebDAV handler only with Basic credentials
\* whose username is a configured user and whose password is that user's;
\* a username that is not configured is rejected whatever the password,
\* the empty one included
C19_AuthGate ==
    (last.op = "auth" /\ last.err = "next") =>
        /\ last.ok
        /\ last.username \in DOMAIN Auth
        /\ Auth[last.username] = last.password

\* a load line of exactly two fields, and its path
TwoFields == "/a/x#1"
TwoFieldsPath == "/a/x"

\* C20: a load line with exactly the two fields path#size loads
\* successfully and yields a file entry whose displayName is the final
\* segment of path
C20_OptionalDisplayName ==
    phase = "new" =>
        LET r == TextLoadFromText(Files, TwoFields)
        IN  /\ r.err = "nil"
            /\ TwoFieldsPath \in DOMAIN r.Files
            /\ r.Files[TwoFieldsPath].DisplayName = Base(TwoFieldsPath)

\* the lines of the file list that was loaded
TextLines == Split(last.text, "\n")

\* a line the loader has to read: neither blank nor a comment
Declares(raw) == TrimSpace(raw) # "" /\ ~HasPrefix(TrimSpace(raw), "#")

Fields(raw) == Split(TrimSpace(raw), "#")

\* a malformed line: fewer than 2 fields, a size that is no number, an empty
\* path, or a third field that is present but blank
Malformed(raw) ==
    /\ Declares(raw)
    /\ \/ Len(Fields(raw)) < 2
       \/ ParseInt(TrimSpace(Fields(raw)[2])).err
       \/ TrimSpace(Fields(raw)[1]) = ""
       \/ Len(Fields(raw)) >= 3 /\ TrimSpace(Fields(raw)[3]) = ""

\* C21: LoadFromText returns an error whenever the file list has a line that
\* is neither blank nor a comment and is malformed; no such line is accepted
\* or skipped
C21_MalformedRejected ==
    (last.op = "LoadFromText" /\ \E k \in DOMAIN TextLines : Malformed(TextLines[k]))
        => last.err # "nil"

\* the store the loader of part_003 is in after the first n lines
AfterLines(n) ==
    LoadLines([files |-> <<>>, objs |-> <<>>, err |-> "nil"], SubSeq(TextLines, 1, n), now)

\* the same for the loader of main.go
TextAfterLines(n) ==
    TextLoadLines([Files |-> <<>>, err |-> "nil"], SubSeq(TextLines, 1, n))

\* C22: when LoadFromText fails at line k, the store is exactly what lines
\* 1..k-1 produced: the failing line has added neither a leaf nor an ancestor
\* directory, and nothing of the lines after k is present
C22_NoRollback ==
    /\ (last.op = "LoadFromText" /\ last.err # "nil") =>
          \E k \in DOMAIN TextLines :
              /\ AfterLines(k - 1).err = "nil"
              /\ AfterLines(k).err # "nil"
              /\ LET c == Collect(AfterLines(k - 1).files, AfterLines(k - 1).objs, <<>>)
                 IN  files = c.files /\ objs = c.objs
    /\ (last.op = "TextLoadFromText" /\ last.err # "nil") =>
          \E k \in DOMAIN TextLines :
              /\ TextAfterLines(k - 1).err = "nil"
              /\ TextAfterLines(k).err # "nil"
              /\ Files = TextAfterLines(k - 1).Files

\* the load has failed at the second line /b/y#zz#K: /a/x of the first line
\* is there, /b is not
C22_Witness ==
    /\ last.op = "LoadFromText" /\ last.err # "nil"
    /\ last.text = "/a/x#1#N\n/b/y#zz#K"
    /\ DOMAIN files = {"/a", "/a/x"}

\* the path a line declares, and the key it has to be stored under
DeclaredPath(raw) == TrimSpace(Fields(raw)[1])
Normalised(path) == IF HasPrefix(path, "/") THEN path ELSE "/" \o path

\* C23: every entry LoadFromText inserts is stored under a key that begins
\* with "/"; a declared path without a leading slash is stored as "/" + path
C23_PathNormalised ==
    last.op = "LoadFromText" =>
        /\ \A q \in DOMAIN files : HasPrefix(q, "/")
        /\ last.err = "nil" =>
              \A k \in DOMAIN TextLines :
                  Declares(TextLines[k]) =>
                      Normalised(DeclaredPath(TextLines[k])) \in DOMAIN files

\* the proper ancestors, other than the root, of the paths the file list
\* declares, and the paths it declares
DeclaredPaths ==
    {Normalised(DeclaredPath(TextLines[k])) : k \in {i \in DOMAIN TextLines : Declares(TextLines[i])}}

DeclaredAncestors == UNION {Ancestors(path) : path \in DeclaredPaths} \ {"/", "."}

\* C24: after LoadFromText has processed the declarations, every proper
\* ancestor of a declared path other than the root, at every depth, is in
\* the store; one that no line declares as a file is a directory of size 0
\* whose displayName is its final path segment
C24_AncestorSynthesis ==
    /\ (last.op = "LoadFromText" /\ last.err = "nil") =>
          \A d \in DeclaredAncestors :
              /\ d \in DOMAIN files
              /\ d \notin DeclaredPaths =>
                    /\ objs[files[d]].isDir
                    /\ objs[files[d]].size = 0
                    /\ objs[files[d]].displayName = Base(d)
    /\ (last.op = "TextLoadFromText2" /\ last.err = "nil") =>
          \A d \in DeclaredAncestors :
              /\ d \in DOMAIN Files
              /\ d \notin DeclaredPaths =>
                    /\ Files[d].IsDir
                    /\ Files[d].Size = 0
                    /\ Files[d].DisplayName = Base(d)

\* C25: after every successful LoadFromText the store has an entry for "/"
\* that is a directory with an empty displayName
C25_ImplicitRoot ==
    (last.op = "LoadFromText" /\ last.err = "nil") =>
        /\ "/" \in DOMAIN files
        /\ objs[files["/"]].isDir
        /\ objs[files["/"]].displayName = ""

\* C26: Write on an open handle of a directory fails with ErrInvalid and
\* changes nothing; Write of n bytes at offset o on an open handle of a file
\* succeeds and leaves the size max(previous size, o + n): it never shrinks
\* the entry
C26_WriteSemantics ==
    \A i \in DOMAIN handles : \A n \in 0..MaxLen :
        LET h == handles[i]
            f == objs[h.file]
            r == WriteOp(h, f, n, now)
        IN  ~h.closed =>
               IF f.isDir
               THEN r.err = "ErrInvalid" /\ r.n = 0 /\ r.f = f
               ELSE /\ r.err = "nil" /\ r.n = n
                    /\ r.f.size = IF f.size >= h.offset + n THEN f.size ELSE h.offset + n

\* C27: LoadFromText accepts no negative size, and every entry of the store
\* has a size >= 0
C27_SizeNonNegative ==
    /\ \A q \in DOMAIN files : objs[files[q]].size >= 0
    /\ \A q \in DOMAIN Files : Files[q].Size >= 0
    /\ (last.op \in {"LoadFromText", "TextLoadFromText"} /\ last.err = "nil") =>
          \A k \in DOMAIN TextLines :
              Declares(TextLines[k]) => ParseInt(TrimSpace(Fields(TextLines[k])[2])).val >= 0

\* C28: in every reachable state every entry that is a directory has size 0,
\* whatever load, Mkdir, OpenFile, Write, Rename and Patch calls led there
C28_DirectorySize ==
    \A q \in DOMAIN files : objs[files[q]].isDir => objs[files[q]].size = 0

\* a Write on a handle of a directory of the store has been refused
C28_Witness ==
    /\ last.op = "Write" /\ last.err = "ErrInvalid"
    /\ last.h \in DOMAIN handles
    /\ \E q \in DOMAIN files :
          /\ files[q] = handles[last.h].file
          /\ objs[files[q]].isDir /\ objs[files[q]].size = 0

\* C29: the kind of a path is terminal: a path that is in the store before
\* and after an operation (OpenFile, Write, Patch, a Rename onto an existing
\* destination) is a directory after it exactly when it was one before
C29_KindTerminal ==
    [][\A q \in DOMAIN files \cap DOMAIN files' :
           objs'[files'[q]].isDir = objs[files[q]].isDir]_vars

\* the entry at q after the step is new at that path, or is not what was there
Touched(q) == q \notin DOMAIN files \/ objs'[files'[q]] # objs[files[q]]

\* C30: modTime is set when an entry is created and is advanced by every
\* successful Write to it, every successful Rename that moves it and every
\* successful Patch on it: an entry a successful call has created, moved or
\* changed carries the time of that call
C30_ModTime ==
    [][(steps' # steps /\ last'.err = "nil") =>
           \A q \in DOMAIN files' : Touched(q) => objs'[files'[q]].modTime = now]_vars

\* C31: a call on a handle of the wrong kind fails with an invalid-operation
\* error and changes neither the handle nor the store; here Readdir on a
\* handle of a file, which must not be answered with permission-denied
C31_KindMismatch ==
    [][(steps' # steps /\ last'.op = "Readdir") =>
           /\ last'.err = "ErrInvalid"
           /\ vfiles' = vfiles
           /\ Files' = Files]_vars

\* C32: the offset of every handle is at least 0 in every reachable state,
\* a Seek that fails having left the offset as it was before the call
C32_OffsetNonNegative ==
    \A i \in DOMAIN handles : handles[i].offset >= 0

\* what the caller of the handle hs[i] gets from Stat, Read and Write, the
\* heap being os
Through(hs, os, i) ==
    [stat |-> HandleStatOp(hs[i], os[hs[i].file]),
     read |-> [n \in 0..MaxLen |->
                  LET r == ReadOp(hs[i], os[hs[i].file], n)
                  IN  [n |-> r.n, err |-> r.err, offset |-> r.h.offset]],
     write |-> [n \in 0..MaxLen |-> WriteOp(hs[i], os[hs[i].file], n, now).err]]

\* C33: a handle holds the very entry the map holds at the name it was opened
\* on; a Write through a handle shows at once in Stat of every path bound to
\* that entry and in Stat through every other open handle on it; and a
\* RemoveAll or a Rename leaves what every open handle's Stat, Read and Write
\* give as it was, Stat through an unclosed handle succeeding
C33_SharedReference ==
    [][steps' # steps =>
         /\ (last'.op = "OpenFile" /\ last'.err = "nil") =>
               handles'[last'.h].file = files'[last'.name]
         /\ (last'.op = "Write" /\ last'.err = "nil") =>
               LET id == handles'[last'.h].file
                   size == handles'[last'.h].offset + last'.n
               IN  /\ \A q \in DOMAIN files' :
                          files'[q] = id =>
                             StatOp(files', objs', q).info[1].size = size
                   /\ \A j \in DOMAIN handles' :
                          (handles'[j].file = id /\ ~handles'[j].closed) =>
                             HandleStatOp(handles'[j], objs'[id]).info[1].size = size
         /\ (last'.op \in {"RemoveAll", "Rename"}) =>
               /\ DOMAIN handles' = DOMAIN handles
               /\ \A i \in DOMAIN handles :
                     /\ Through(handles', objs', i) = Through(handles, objs, i)
                     /\ ~handles[i].closed =>
                           Through(handles', objs', i).stat.err = "nil"]_vars

\* a Write has just succeeded through a handle whose entry a RemoveAll or a
\* Rename took from the name it was opened on
C33_Witness ==
    /\ last.op = "Write"
    /\ last.err = "nil"
    /\ last.n > 0
    /\ \A q \in DOMAIN files : files[q] # handles[last.h].file

\* C34: whenever the map holds an entry at a path and an entry at the parent
\* of that path, the entry at the parent is a directory
C34_ParentIsDirectory ==
    \A path \in DOMAIN files :
        (Dir(path) # path /\ Dir(path) \in DOMAIN files) =>
            objs[files[Dir(path)]].isDir

\* C35: a Rename that succeeds leaves every entry outside the subtrees of old
\* and of new as it was, binds every path new+s to the very entry that was at
\* old+s, and keeps the number of entries when nothing was at or beneath new
C35_RenameFrame ==
    \A oldName \in Known, newName \in Known :
        LET r == RenameOp(files, objs, oldName, newName)
            moved == {path \in DOMAIN files : InSubtree(path, oldName)}
        IN  r.err = "nil" =>
              /\ \A q \in DOMAIN files \cup DOMAIN r.files :
                    (~InSubtree(q, oldName) /\ ~InSubtree(q, newName)) =>
                       /\ q \in DOMAIN files
                       /\ q \in DOMAIN r.files
                       /\ r.files[q] = files[q]
                       /\ r.objs[r.files[q]] = objs[files[q]]
              /\ \A path \in moved :
                    LET q == newName \o TrimPrefix(path, oldName)
                    IN  /\ q \in DOMAIN r.files
                        /\ r.files[q] = files[path]
                        /\ r.objs[r.files[q]] = objs[files[path]]
              /\ (\A q \in DOMAIN files : ~InSubtree(q, newName)) =>
                    Cardinality(DOMAIN r.files) = Cardinality(DOMAIN files)

\* C36: of two OpenFile calls with O_CREATE|O_EXCL on one name that was absent
\* at most one succeeds, the other getting ErrExist, and the handles of the
\* calls that succeeded on a name refer to the one entry stored at it
C36_ExclusiveCreate ==
    \A g1 \in DOMAIN Calls, g2 \in DOMAIN Calls :
        (/\ g1 # g2
         /\ Calls[g1].name = Calls[g2].name
         /\ Calls[g1].create /\ Calls[g1].excl
         /\ Calls[g2].create /\ Calls[g2].excl
         /\ Calls[g1].at = "done"
         /\ Calls[g2].at = "done") =>
            /\ ~(Calls[g1].err = "nil" /\ Calls[g2].err = "nil")
            /\ \A g \in {g1, g2} :
                   Calls[g].err = "nil" =>
                       handles[Calls[g].h].file = files[Calls[g].name]

\* a caller that reads the VirtualFile f with a buffer of len bytes until Read
\* returns an error: the number of bytes it gets
RECURSIVE VFReadAll(_, _, _)
VFReadAll(f, Fs, len) ==
    LET r == VFReadOp(f, Fs, len)
    IN  IF r.err # "nil" THEN 0 ELSE r.n + VFReadAll(r.f, Fs, len)

\* C37: reading a freshly opened file from offset 0 to the end delivers as
\* many bytes as the size Stat reports for it
C37_ReadableLength ==
    \A name \in DOMAIN Files : \A len \in 1..MaxLen :
        VFReadAll(TextOpenFileOp(Files, name, "O_RDONLY").f[1], Files, len)
            = TextStatOp(Files, name, now).info[1].size

\* C38: in the read-only file system Stat, OpenFile and Find agree on whether
\* a path exists: each path Stat succeeds for, a directory implied by an
\* entry beneath it included, can be opened and queried for properties
C38_StatOpenFindAgree ==
    \A name \in Paths \cup DOMAIN Files :
        LET stat == TextStatOp(Files, name, now).err = "nil"
            open == TextOpenFileOp(Files, name, "O_RDONLY").err = "nil"
            find == TextFindOp(Files, name, {DavDisplayName}, now).err = "nil"
        IN  /\ stat = open
            /\ stat = find

\* C39: a Write of n bytes that succeeds on a handle of a file moves the
\* offset of the handle forward by n, so that a second Write of m bytes
\* leaves the size of the file at least the first offset + n + m
C39_WriteAdvances ==
    \A i \in DOMAIN handles : \A n \in 1..MaxLen, m \in 1..MaxLen :
        LET h == handles[i]
            f == objs[h.file]
            w1 == WriteOp(h, f, n, now)
            w2 == WriteOp(h, w1.f, m, now)
        IN  (w1.err = "nil" /\ w2.err = "nil" /\ h.offset >= 0) =>
               w2.f.size >= h.offset + n + m

====
